---------------------------- MODULE Spec2Model ----------------------------
(***************************************************************************)
(* Answer evaluation engine of slam-backend (evaluate-answer endpoint):    *)
(* normalizeExpression, evaluateToNumber, parseAlgebraic,                  *)
(* checkAlgebraicEquivalence, checkEquivalence, detectMisconceptions and   *)
(* handleEvaluateAnswer.                                                   *)
(*                                                                         *)
(* A JavaScript string is a sequence of one-character strings.  A          *)
(* JavaScript number is a pair <<n, d>>: the rational n/d in lowest terms  *)
(* with d > 0, or <<1,0>> (Infinity), <<-1,0>> (-Infinity), <<0,0>> (NaN). *)
(* Arithmetic is exact: the rounding of IEEE-754 doubles is not            *)
(* represented, and -0 is identified with 0.                               *)
(***************************************************************************)
EXTENDS Integers, Sequences, FiniteSets, TLC

VARIABLES
    input,      \* SpecEq: the arguments of the checkEquivalence call under test
    verdict,    \* SpecEq: what that call returned
    trace,      \* SpecEq: the evaluations that call made, in order
    pc,         \* Spec: position of the handler
    req,        \* Spec: the fields of the request body read so far
    phase1,     \* Spec: isCorrect, correctAnswer, feedback, equivalenceResult, misconceptions
    calls,      \* Spec: the checkEquivalence invocations made so far, in order
    resp        \* Spec: the response sent

vars == <<input, verdict, trace, pc, req, phase1, calls, resp>>

\* JavaScript undefined where a string is expected (an absent answer or
\* expected answer).  Absent fields of a record are absent from its DOMAIN.
Undefined == <<"<undefined>">>

Has(r, f) == f \in DOMAIN r

\* const v = ...: F applied to a value that is computed once.
Given(value, F(_)) == CHOOSE result \in {F(v) : v \in {value}} : TRUE

----------------------------------------------------------------------------
(* Numbers *)

RECURSIVE GCD(_, _)
GCD(a, b) == IF b = 0 THEN a ELSE GCD(b, a % b)

AbsInt(n) == IF n < 0 THEN -n ELSE n

NaN == <<0, 0>>
Infinity == <<1, 0>>
NegInfinity == <<-1, 0>>
Zero == <<0, 1>>

\* The number n/d for integers n, d with d # 0, in lowest terms.
Rat(n, d) ==
    LET Reduced(g) == IF d < 0 THEN <<(-n) \div g, (-d) \div g>> ELSE <<n \div g, d \div g>>
    IN  Reduced(GCD(AbsInt(n), AbsInt(d)))

Whole(n) == <<n, 1>>

IsNaN(x) == x = NaN
IsFinite(x) == x[2] # 0
Sign(x) == IF x[1] > 0 THEN 1 ELSE IF x[1] < 0 THEN -1 ELSE 0

Neg(x) == <<-x[1], x[2]>>

Add(x, y) ==
    IF IsNaN(x) \/ IsNaN(y) THEN NaN
    ELSE IF ~IsFinite(x) THEN (IF ~IsFinite(y) /\ y # x THEN NaN ELSE x)
    ELSE IF ~IsFinite(y) THEN y
    ELSE Rat(x[1] * y[2] + y[1] * x[2], x[2] * y[2])

Sub(x, y) == Add(x, Neg(y))

Mul(x, y) ==
    IF IsNaN(x) \/ IsNaN(y) THEN NaN
    ELSE IF ~IsFinite(x) \/ ~IsFinite(y)
         THEN (IF Sign(x) * Sign(y) = 0 THEN NaN ELSE <<Sign(x) * Sign(y), 0>>)
    ELSE Rat(x[1] * y[1], x[2] * y[2])

Div(x, y) ==
    IF IsNaN(x) \/ IsNaN(y) THEN NaN
    ELSE IF ~IsFinite(x)
         THEN (IF ~IsFinite(y) THEN NaN
               ELSE <<(IF Sign(y) < 0 THEN -1 ELSE 1) * Sign(x), 0>>)
    ELSE IF ~IsFinite(y) THEN Zero
    ELSE IF y[1] = 0 THEN (IF x[1] = 0 THEN NaN ELSE <<Sign(x), 0>>)
    ELSE Rat(x[1] * y[2], x[2] * y[1])

Abs(x) == <<AbsInt(x[1]), x[2]>>

\* p/q < r/s for integers p, r and q, s > 0, without forming the products
\* p*s and r*q (continued-fraction comparison).
RECURSIVE FracLess(_, _, _, _)
FracLess(p, q, r, s) ==
    LET a == p \div q
        b == r \div s
        pr == p % q
        rr == r % s
    IN  IF a # b THEN a < b
        ELSE IF rr = 0 THEN FALSE
        ELSE IF pr = 0 THEN TRUE
        ELSE FracLess(s, rr, q, pr)

\* x < y and x <= y as JavaScript compares numbers (false when either is NaN).
Less(x, y) ==
    IF IsNaN(x) \/ IsNaN(y) THEN FALSE
    ELSE IF ~IsFinite(x) \/ ~IsFinite(y)
         THEN x # y /\ (x = NegInfinity \/ y = Infinity)
    ELSE FracLess(x[1], x[2], y[1], y[2])

LessEq(x, y) == ~IsNaN(x) /\ ~IsNaN(y) /\ ~Less(y, x)

\* Math.round: the nearest integer, halves rounded towards +Infinity.
MathRound(x) ==
    IF IsFinite(x) THEN Whole((2 * x[1] + x[2]) \div (2 * x[2])) ELSE x

----------------------------------------------------------------------------
(* Characters and strings *)

DigitChars == <<"0", "1", "2", "3", "4", "5", "6", "7", "8", "9">>
LowerChars == <<"a", "b", "c", "d", "e", "f", "g", "h", "i", "j", "k", "l", "m",
                "n", "o", "p", "q", "r", "s", "t", "u", "v", "w", "x", "y", "z">>
UpperChars == <<"A", "B", "C", "D", "E", "F", "G", "H", "I", "J", "K", "L", "M",
                "N", "O", "P", "Q", "R", "S", "T", "U", "V", "W", "X", "Y", "Z">>

Range(s) == {s[i] : i \in DOMAIN s}
IndexOf(c, s) == CHOOSE i \in DOMAIN s : s[i] = c

IsDigit(c) == c \in Range(DigitChars)
IsLower(c) == c \in Range(LowerChars)
IsUpper(c) == c \in Range(UpperChars)
IsLetter(c) == IsLower(c) \/ IsUpper(c)
IsSpace(c) == c \in {" ", "\t", "\n"}
DigitVal(c) == IndexOf(c, DigitChars) - 1

RECURSIVE Flatten(_)
Flatten(ss) == IF ss = <<>> THEN <<>> ELSE Head(ss) \o Flatten(Tail(ss))

\* s.slice(i - 1): the characters of s from position i on (1-based).
From(s, i) == SubSeq(s, i, Len(s))

\* Whether t occurs in s at position i.
At(s, i, t) == i + Len(t) - 1 <= Len(s) /\ SubSeq(s, i, i + Len(t) - 1) = t

\* s.replace(/t/g, r) for a literal t: leftmost non-overlapping occurrences.
RECURSIVE ReplaceAll(_, _, _)
ReplaceAll(s, t, r) ==
    IF s = <<>> THEN <<>>
    ELSE IF At(s, 1, t) THEN r \o ReplaceAll(From(s, Len(t) + 1), t, r)
    ELSE <<Head(s)>> \o ReplaceAll(Tail(s), t, r)

ToLowerCase(s) ==
    [i \in DOMAIN s |-> IF IsUpper(s[i]) THEN LowerChars[IndexOf(s[i], UpperChars)] ELSE s[i]]

RECURSIVE Trim(_)
Trim(s) ==
    IF s # <<>> /\ IsSpace(Head(s)) THEN Trim(Tail(s))
    ELSE IF s # <<>> /\ IsSpace(s[Len(s)]) THEN Trim(SubSeq(s, 1, Len(s) - 1))
    ELSE s

----------------------------------------------------------------------------
(* normalizeExpression *)

\* The chained .replace calls on the Unicode math glyphs.  A glyph is the
\* one-character string named by its code point: U+00D7 multiplication sign,
\* U+00F7 division sign, U+2212 minus sign, U+00B7 middle dot, U+00B2 and
\* U+00B3 superscript two and three, U+221A square root, U+03C0 small pi.
GlyphText(c) ==
    CASE c = "U+00D7" -> <<"*">>
      [] c = "U+00F7" -> <<"/">>
      [] c = "U+2212" -> <<"-">>
      [] c = "U+00B7" -> <<"*">>
      [] c = "U+00B2" -> <<"^", "2">>
      [] c = "U+00B3" -> <<"^", "3">>
      [] c = "U+221A" -> <<"s", "q", "r", "t">>
      [] c = "U+03C0" -> <<"p", "i">>
      [] OTHER -> <<c>>

\* Variant: the implicit multiplication is left implicit.
ImplicitMultiplicationLeft(s) == s

\* .replace(/(\d)([a-z])/gi, '$1*$2')
RECURSIVE ImplicitMultiplication(_)
ImplicitMultiplication(s) ==
    IF Len(s) < 2 THEN s
    ELSE IF IsDigit(s[1]) /\ IsLetter(s[2])
         THEN <<s[1], "*", s[2]>> \o ImplicitMultiplication(From(s, 3))
    ELSE <<s[1]>> \o ImplicitMultiplication(Tail(s))

\* String(expr).trim().toLowerCase(), then white space removed, the glyphs
\* replaced, a leading + removed, and the implicit multiplication made explicit.
normalizeExpression(expr) ==
    IF expr = Undefined THEN <<>>
    ELSE Given(SelectSeq(ToLowerCase(Trim(expr)), LAMBDA c : ~IsSpace(c)), LAMBDA spaceless :
         Given(Flatten([i \in DOMAIN spaceless |-> GlyphText(spaceless[i])]), LAMBDA plain :
             ImplicitMultiplication(
                 IF plain # <<>> /\ Head(plain) = "+" THEN Tail(plain) ELSE plain)))

----------------------------------------------------------------------------
(* Number helpers of the JavaScript runtime *)

\* String(Math.PI) and String(Math.E), cut to four decimals: literals must
\* stay within the integers TLC can represent.
PiString == <<"3", ".", "1", "4", "1", "6">>
EString == <<"2", ".", "7", "1", "8", "3">>
MathPI == Rat(31416, 10000)

\* JavaScript null, as returned by evaluateToNumber.
Null == <<>>

\* The value of a run of digits in a base (10, or 8 for a legacy octal literal).
RECURSIVE DigitsValue(_, _)
DigitsValue(ds, base) ==
    IF ds = <<>> THEN 0
    ELSE base * DigitsValue(SubSeq(ds, 1, Len(ds) - 1), base) + DigitVal(ds[Len(ds)])

RECURSIVE PowInt(_, _)
PowInt(b, k) == IF k = 0 THEN 1 ELSE b * PowInt(b, k - 1)

\* The length of the longest prefix of s made of digits.
RECURSIVE DigitRun(_)
DigitRun(s) == IF s # <<>> /\ IsDigit(Head(s)) THEN 1 + DigitRun(Tail(s)) ELSE 0

\* The value of the decimal literal <int digits> . <fraction digits>.
DecimalValue(ints, fracs) ==
    Rat(DigitsValue(ints, 10) * PowInt(10, Len(fracs)) + DigitsValue(fracs, 10),
        PowInt(10, Len(fracs)))

\* The largest r with r * r <= n, for 0 <= n, searched in lo..hi.
RECURSIVE ISqrt(_, _, _)
ISqrt(n, lo, hi) ==
    IF lo >= hi THEN lo
    ELSE LET mid == (lo + hi + 1) \div 2
         IN  IF mid * mid <= n THEN ISqrt(n, mid, hi) ELSE ISqrt(n, lo, mid - 1)

\* Math.sqrt: exact on squares of rationals, otherwise cut to three decimals
\* (the radicand is first cut to three decimals, which keeps the products small).
Sqrt(x) ==
    LET millis == (x[1] \div x[2]) * 1000 + ((x[1] % x[2]) * 1000) \div x[2]
        Root(rn, rd) ==
            IF rn * rn = x[1] /\ rd * rd = x[2] THEN Rat(rn, rd)
            ELSE Rat(ISqrt(millis * 1000, 0, 46340), 1000)
    IN  IF IsNaN(x) \/ Sign(x) < 0 THEN NaN
        ELSE IF ~IsFinite(x) THEN x
        ELSE Root(ISqrt(x[1], 0, 46340), ISqrt(x[2], 0, 46340))

RECURSIVE PowRat(_, _)
PowRat(x, k) == IF k = 0 THEN Whole(1) ELSE Mul(x, PowRat(x, k - 1))

\* x ** y.  Exponents are integers or halves for the inputs considered; any
\* other fractional exponent is outside the model and yields NaN.
Pow(x, y) ==
    LET Reciprocal(negative, p) == IF negative THEN Div(Whole(1), p) ELSE p
        Magnitude(a) ==
            IF a = Whole(1) THEN NaN
            ELSE IF Less(a, Whole(1)) = (y = Infinity) THEN Zero ELSE Infinity
    IN  IF IsNaN(y) THEN NaN
        ELSE IF y = Zero THEN Whole(1)
        ELSE IF IsNaN(x) THEN NaN
        ELSE IF ~IsFinite(y) THEN Magnitude(Abs(x))
        ELSE IF y[2] \in {1, 2}
             THEN Reciprocal(y[1] < 0, PowRat(IF y[2] = 1 THEN x ELSE Sqrt(x), AbsInt(y[1])))
        ELSE NaN

\* parseFloat(s): the value of the longest prefix of s that is a decimal
\* literal (sign, digits, fraction, exponent), NaN when there is none.
parseFloat(s) ==
    LET first == IF s # <<>> /\ Head(s) \in {"+", "-"} THEN 2 ELSE 1
        Mantissa(ni) ==
            LET dot == first + ni
                hasDot == dot <= Len(s) /\ s[dot] = "."
                Fraction(nf) ==
                    LET e == IF hasDot /\ (ni > 0 \/ nf > 0) THEN dot + nf + 1 ELSE dot
                        hasE == e <= Len(s) /\ s[e] = "e"
                        signed == hasE /\ e < Len(s) /\ s[e + 1] \in {"+", "-"}
                        digits == IF signed THEN e + 2 ELSE e + 1
                        Scaled(mant, scale) ==
                            IF signed /\ s[e + 1] = "-" THEN Div(mant, scale)
                            ELSE Mul(mant, scale)
                        Exponent(ne, mant) ==
                            IF ne = 0 THEN mant
                            ELSE Scaled(mant, Whole(PowInt(10,
                                     DigitsValue(SubSeq(s, digits, digits + ne - 1), 10))))
                        Signed(x) == IF Head(s) = "-" THEN Neg(x) ELSE x
                    IN  IF ni = 0 /\ nf = 0 THEN NaN
                        ELSE Signed(Exponent(
                                 IF hasE THEN DigitRun(From(s, digits)) ELSE 0,
                                 DecimalValue(SubSeq(s, first, dot - 1),
                                              SubSeq(s, dot + 1, dot + nf))))
            IN  Fraction(IF hasDot THEN DigitRun(From(s, dot + 1)) ELSE 0)
    IN  Mantissa(DigitRun(From(s, first)))

----------------------------------------------------------------------------
(* new Function(`return ${evalExpr}`)()

   The JavaScript that the gate of evaluateToNumber can let through, for the
   characters considered: decimal and legacy octal literals, identifiers,
   member access and calls, the operators + - * / ** ++ --, parentheses,
   comments and `;`.  Of the global objects only Math.sqrt is reachable (it
   is the only name the rewriting introduces); every other identifier is
   unresolvable and throws a ReferenceError.  A `/` where an operand is
   expected (a regular-expression literal) and any other character are
   reported as a SyntaxError.                                              *)

JsNum(n) == [k |-> "num", n |-> n]
JsThrow == [k |-> "throw", n |-> NaN]
JsUndefined == [k |-> "undefined", n |-> NaN]
JsMath == [k |-> "Math", n |-> NaN]
JsSqrtFn == [k |-> "Math.sqrt", n |-> NaN]

\* ToNumber of a value that is not a number is NaN (undefined, a function).
BinaryOp(op, a, b) ==
    IF a.k = "throw" \/ b.k = "throw" THEN JsThrow
    ELSE JsNum(CASE op = "+" -> Add(a.n, b.n)
                 [] op = "-" -> Sub(a.n, b.n)
                 [] op = "*" -> Mul(a.n, b.n)
                 [] op = "/" -> Div(a.n, b.n)
                 [] op = "**" -> Pow(a.n, b.n))

SyntaxErr == [ok |-> FALSE, v |-> JsUndefined, i |-> 0, lhs |-> FALSE, unary |-> FALSE]
Parsed(v, i, lhs, unary) == [ok |-> TRUE, v |-> v, i |-> i, lhs |-> lhs, unary |-> unary]

\* Comments: `//` runs to the end, `/* ... */` counts as white space.
RECURSIVE StripComments(_)
StripComments(s) ==
    LET ends == {j \in 3..(Len(s) - 1) : At(s, j, <<"*", "/">>)}
        Then(prefix, r) == [ok |-> r.ok, s |-> prefix \o r.s]
    IN  IF s = <<>> THEN [ok |-> TRUE, s |-> <<>>]
        ELSE IF At(s, 1, <<"/", "/">>) THEN [ok |-> TRUE, s |-> <<>>]
        ELSE IF At(s, 1, <<"/", "*">>)
             THEN IF ends = {} THEN [ok |-> FALSE, s |-> <<>>]
                  ELSE Then(<<" ">>,
                            StripComments(From(s, 2 + CHOOSE e \in ends : \A f \in ends : e <= f)))
        ELSE Then(<<Head(s)>>, StripComments(Tail(s)))

RECURSIVE SkipSpaces(_, _)
SkipSpaces(s, i) == IF i <= Len(s) /\ IsSpace(s[i]) THEN SkipSpaces(s, i + 1) ELSE i

RECURSIVE IdentRun(_)
IdentRun(s) ==
    IF s # <<>> /\ (IsLetter(Head(s)) \/ IsDigit(Head(s))) THEN 1 + IdentRun(Tail(s)) ELSE 0

\* A numeric literal at position i (s[i] is a digit or a dot).
NumericLiteral(s, i) ==
    LET Literal(ni) ==
            LET ints == SubSeq(s, i, i + ni - 1)
                octal == ni > 1 /\ s[i] = "0" /\ \A d \in Range(ints) : d \notin {"8", "9"}
                dot == i + ni
                hasDot == ~octal /\ dot <= Len(s) /\ s[dot] = "."
                Fraction(nf) ==
                    LET next == dot + (IF hasDot THEN nf + 1 ELSE 0)
                    IN  IF ni = 0 /\ nf = 0 THEN SyntaxErr
                        ELSE IF next <= Len(s) /\ (IsLetter(s[next]) \/ IsDigit(s[next]))
                             THEN SyntaxErr
                        ELSE Parsed(JsNum(IF octal THEN Whole(DigitsValue(ints, 8))
                                          ELSE DecimalValue(ints, SubSeq(s, dot + 1, dot + nf))),
                                    next, FALSE, FALSE)
            IN  Fraction(IF hasDot THEN DigitRun(From(s, dot + 1)) ELSE 0)
    IN  Literal(DigitRun(From(s, i)))

RECURSIVE ParseExpression(_, _), ParseAdditiveRest(_, _), ParseMultiplicative(_, _),
          ParseMultiplicativeRest(_, _), ParseExponentiation(_, _), ParseUnary(_, _),
          ParsePostfix(_, _), ParseSuffixes(_, _), ParsePrimary(_, _)

ParsePrimary(s, i) ==
    Given(SkipSpaces(s, i), LAMBDA j :
        IF j > Len(s) THEN SyntaxErr
        ELSE IF s[j] = "("
             THEN Given(ParseExpression(s, j + 1), LAMBDA r :
                      IF ~r.ok THEN SyntaxErr
                      ELSE Given(SkipSpaces(s, r.i), LAMBDA c :
                               IF c <= Len(s) /\ s[c] = ")"
                               THEN Parsed(r.v, c + 1, r.lhs, FALSE)
                               ELSE SyntaxErr))
        ELSE IF IsDigit(s[j]) \/ s[j] = "." THEN NumericLiteral(s, j)
        ELSE IF IsLetter(s[j])
             THEN Given(IdentRun(From(s, j)), LAMBDA n :
                      Parsed(IF SubSeq(s, j, j + n - 1) = <<"M", "a", "t", "h">>
                             THEN JsMath ELSE JsThrow,
                             j + n, TRUE, FALSE))
        ELSE SyntaxErr)

\* Member accesses and calls after a primary expression r.
ParseSuffixes(s, r) ==
    Given(SkipSpaces(s, r.i), LAMBDA j :
        IF j > Len(s) THEN r
        ELSE IF s[j] = "." /\ j < Len(s) /\ IsLetter(s[j + 1])
             THEN Given(IdentRun(From(s, j + 1)), LAMBDA n :
                      ParseSuffixes(s,
                          Parsed(IF r.v.k \in {"throw", "undefined"} THEN JsThrow
                                 ELSE IF r.v.k = "Math"
                                         /\ SubSeq(s, j + 1, j + n) = <<"s", "q", "r", "t">>
                                      THEN JsSqrtFn
                                 ELSE JsUndefined,
                                 j + n + 1, TRUE, FALSE)))
        ELSE IF s[j] = "("
             THEN Given(SkipSpaces(s, j + 1), LAMBDA c0 :
                  Given(IF c0 <= Len(s) /\ s[c0] = ")"
                        THEN Parsed(JsUndefined, c0, FALSE, FALSE)
                        ELSE ParseExpression(s, j + 1), LAMBDA a :
                      IF ~a.ok THEN SyntaxErr
                      ELSE Given(SkipSpaces(s, a.i), LAMBDA c :
                               IF c <= Len(s) /\ s[c] = ")"
                               THEN ParseSuffixes(s,
                                        Parsed(IF r.v.k = "Math.sqrt" /\ a.v.k # "throw"
                                               THEN JsNum(Sqrt(a.v.n)) ELSE JsThrow,
                                               c + 1, FALSE, FALSE))
                               ELSE SyntaxErr)))
        ELSE r)

\* x++ and x--: an early error unless the operand can be assigned to; the
\* operand is then an unresolvable reference.
ParsePostfix(s, i) ==
    Given(ParsePrimary(s, i), LAMBDA p :
        IF ~p.ok THEN SyntaxErr
        ELSE
    Given(ParseSuffixes(s, p), LAMBDA r :
        IF ~r.ok THEN SyntaxErr
        ELSE Given(SkipSpaces(s, r.i), LAMBDA j :
                 IF At(s, j, <<"+", "+">>) \/ At(s, j, <<"-", "-">>)
                 THEN (IF r.lhs THEN Parsed(JsThrow, j + 2, FALSE, FALSE) ELSE SyntaxErr)
                 ELSE r)))

ParseUnary(s, i) ==
    Given(SkipSpaces(s, i), LAMBDA j :
        IF At(s, j, <<"+", "+">>) \/ At(s, j, <<"-", "-">>)
        THEN Given(ParseUnary(s, j + 2), LAMBDA r :
                 IF r.ok /\ r.lhs THEN Parsed(JsThrow, r.i, FALSE, FALSE) ELSE SyntaxErr)
        ELSE IF j <= Len(s) /\ s[j] \in {"+", "-"}
             THEN Given(ParseUnary(s, j + 1), LAMBDA r :
                      IF ~r.ok THEN SyntaxErr
                      ELSE Parsed(IF r.v.k = "throw" THEN JsThrow
                                  ELSE JsNum(IF s[j] = "-" THEN Neg(r.v.n) ELSE r.v.n),
                                  r.i, FALSE, TRUE))
        ELSE ParsePostfix(s, i))

\* a ** b groups to the right; its left operand may not be a unary expression.
ParseExponentiation(s, i) ==
    Given(ParseUnary(s, i), LAMBDA u :
        IF ~u.ok THEN SyntaxErr
        ELSE IF At(s, SkipSpaces(s, u.i), <<"*", "*">>)
             THEN Given(ParseExponentiation(s, SkipSpaces(s, u.i) + 2), LAMBDA r :
                      IF u.unary \/ ~r.ok THEN SyntaxErr
                      ELSE Parsed(BinaryOp("**", u.v, r.v), r.i, FALSE, FALSE))
        ELSE u)

\* The operators of one precedence level and their operands, left to right;
\* l is the operand parsed so far.
ParseMultiplicativeRest(s, l) ==
    Given(SkipSpaces(s, l.i), LAMBDA j :
        IF j <= Len(s) /\ s[j] \in {"*", "/"}
        THEN Given(ParseExponentiation(s, j + 1), LAMBDA r :
                 IF ~r.ok THEN SyntaxErr
                 ELSE ParseMultiplicativeRest(s,
                          Parsed(BinaryOp(s[j], l.v, r.v), r.i, FALSE, FALSE)))
        ELSE l)

ParseMultiplicative(s, i) ==
    Given(ParseExponentiation(s, i), LAMBDA l :
        IF l.ok THEN ParseMultiplicativeRest(s, l) ELSE SyntaxErr)

ParseAdditiveRest(s, l) ==
    Given(SkipSpaces(s, l.i), LAMBDA j :
        IF j <= Len(s) /\ s[j] \in {"+", "-"}
        THEN Given(ParseMultiplicative(s, j + 1), LAMBDA r :
                 IF ~r.ok THEN SyntaxErr
                 ELSE ParseAdditiveRest(s,
                          Parsed(BinaryOp(s[j], l.v, r.v), r.i, FALSE, FALSE)))
        ELSE l)

ParseExpression(s, i) ==
    Given(ParseMultiplicative(s, i), LAMBDA l :
        IF l.ok THEN ParseAdditiveRest(s, l) ELSE SyntaxErr)

\* The statements of the function body, separated at `;`.
RECURSIVE SplitAt(_, _)
SplitAt(s, c) ==
    LET hits == {j \in DOMAIN s : s[j] = c}
        Cut(j) == <<SubSeq(s, 1, j - 1)>> \o SplitAt(From(s, j + 1), c)
    IN  IF hits = {} THEN <<s>>
        ELSE Cut(CHOOSE h \in hits : \A g \in hits : h <= g)

\* An expression statement: s is one whole expression.
WholeExpression(s) ==
    Given(ParseExpression(s, 1), LAMBDA r :
        IF r.ok /\ SkipSpaces(s, r.i) > Len(s) THEN r ELSE SyntaxErr)

\* The outcome of running `return ${evalExpr}`: a value, or JsThrow for a
\* SyntaxError (raised by `new Function`) and for an exception of the body.
NewFunction(evalExpr) ==
    Given(StripComments(evalExpr), LAMBDA c :
        IF ~c.ok THEN JsThrow
        ELSE Given(SplitAt(c.s, ";"), LAMBDA stmts :
                 IF \E k \in 2..Len(stmts) : Trim(stmts[k]) # <<>> /\ ~WholeExpression(stmts[k]).ok
                 THEN JsThrow
                 ELSE IF Trim(stmts[1]) = <<>> THEN JsUndefined
                 ELSE Given(WholeExpression(stmts[1]), LAMBDA first :
                          IF first.ok THEN first.v ELSE JsThrow)))

----------------------------------------------------------------------------
(* evaluateToNumber *)

\* .replace(/e(?![a-z])/g, String(Math.E))
RECURSIVE ReplaceE(_)
ReplaceE(s) ==
    IF s = <<>> THEN <<>>
    ELSE (IF Head(s) = "e" /\ ~(Len(s) >= 2 /\ IsLower(s[2])) THEN EString ELSE <<Head(s)>>)
             \o ReplaceE(Tail(s))

\* .replace(/sqrt\(([^)]+)\)/g, (_, inner) => `Math.sqrt(${inner})`)
RECURSIVE ReplaceSqrt(_)
ReplaceSqrt(s) ==
    LET closes == {j \in 6..Len(s) : s[j] = ")"}
        Rewritten(close) ==
            IF close > 6
            THEN <<"M", "a", "t", "h", ".">> \o SubSeq(s, 1, close)
                     \o ReplaceSqrt(From(s, close + 1))
            ELSE <<Head(s)>> \o ReplaceSqrt(Tail(s))
    IN  IF s = <<>> THEN <<>>
        ELSE IF At(s, 1, <<"s", "q", "r", "t", "(">>) /\ closes # {}
             THEN Rewritten(CHOOSE j \in closes : \A k \in closes : j <= k)
        ELSE <<Head(s)>> \o ReplaceSqrt(Tail(s))

\* The four rewrites: /pi/g, /e(?![a-z])/g, /sqrt\(([^)]+)\)/g and /\^/g.
EvalExpr(normalized) ==
    ReplaceAll(ReplaceSqrt(ReplaceE(ReplaceAll(normalized, <<"p", "i">>, PiString))),
               <<"^">>, <<"*", "*">>)

\* /^-?\d+\/\d+$/
IsSimpleFraction(s) ==
    LET first == IF s # <<>> /\ Head(s) = "-" THEN 2 ELSE 1
        Slash(n) ==
            /\ n >= 1
            /\ first + n < Len(s)
            /\ s[first + n] = "/"
            /\ \A j \in (first + n + 1)..Len(s) : IsDigit(s[j])
    IN  Slash(DigitRun(From(s, first)))

\* const [num, denom] = evalExpr.split('/'); parseFloat(num) / parseFloat(denom)
SimpleFractionValue(s) ==
    Given(SplitAt(s, "/"), LAMBDA parts : Div(parseFloat(parts[1]), parseFloat(parts[2])))

\* /^[0-9+\-*/().eE\s]+$/
OnlyRestrictedChars(s) ==
    /\ s # <<>>
    /\ \A j \in DOMAIN s :
           \/ IsDigit(s[j])
           \/ s[j] \in {"+", "-", "*", "/", "(", ")", ".", "e", "E"}
           \/ IsSpace(s[j])

\* /Math\.\w+/
HasMathMember(s) ==
    \E j \in DOMAIN s : At(s, j, <<"M", "a", "t", "h", ".">>)
                            /\ j + 5 <= Len(s)
                            /\ (IsLetter(s[j + 5]) \/ IsDigit(s[j + 5]) \/ s[j + 5] = "_")

\* The condition under which evalExpr is evaluated as code.
GateOpen(evalExpr) == OnlyRestrictedChars(evalExpr) \/ HasMathMember(evalExpr)

\* The strings a call evaluateToNumber(expr) hands to `new Function`.
HandedToFunction(expr) ==
    Given(EvalExpr(normalizeExpression(expr)), LAMBDA evalExpr :
        IF ~IsSimpleFraction(evalExpr) /\ GateOpen(evalExpr) THEN <<evalExpr>> ELSE <<>>)

\* const direct = parseFloat(normalized); if (!isNaN(direct)) return direct; return null
DirectParse(normalized) ==
    Given(parseFloat(normalized), LAMBDA direct : IF ~IsNaN(direct) THEN direct ELSE Null)

evaluateToNumber(expr) ==
    Given(normalizeExpression(expr), LAMBDA normalized :
    Given(EvalExpr(normalized), LAMBDA evalExpr :
        IF IsSimpleFraction(evalExpr) THEN SimpleFractionValue(evalExpr)
        ELSE IF GateOpen(evalExpr)
             THEN Given(NewFunction(evalExpr), LAMBDA result :
                      IF result.k = "throw" THEN Null
                      ELSE IF result.k = "num" /\ ~IsNaN(result.n) THEN result.n
                      ELSE DirectParse(normalized))
        ELSE DirectParse(normalized)))

----------------------------------------------------------------------------
(* parseAlgebraic and checkAlgebraicEquivalence *)

\* normalized.split(/(?=[+-])/): cut before every sign that is not the first
\* character.
RECURSIVE SplitBeforeSigns(_)
SplitBeforeSigns(s) ==
    LET cuts == {j \in 2..Len(s) : s[j] \in {"+", "-"}}
    IN  IF cuts = {} THEN <<s>>
        ELSE LET j == CHOOSE c \in cuts : \A d \in cuts : c <= d
             IN  <<SubSeq(s, 1, j - 1)>> \o SplitBeforeSigns(From(s, j))

RECURSIVE LetterRun(_)
LetterRun(s) == IF s # <<>> /\ IsLetter(Head(s)) THEN 1 + LetterRun(Tail(s)) ELSE 0

\* part.match(/^([+-]?\d*\.?\d*)\*?([a-z]*)(\^?\d*)?$/i)
MatchTerm(part) ==
    Given(IF part # <<>> /\ Head(part) \in {"+", "-"} THEN 1 ELSE 0, LAMBDA sign :
    Given(sign + DigitRun(From(part, sign + 1)), LAMBDA ints :
    Given(IF ints < Len(part) /\ part[ints + 1] = "." THEN ints + 1 ELSE ints, LAMBDA dot :
    Given(dot + DigitRun(From(part, dot + 1)), LAMBDA coef :
    Given(IF coef < Len(part) /\ part[coef + 1] = "*" THEN coef + 1 ELSE coef, LAMBDA star :
    Given(star + LetterRun(From(part, star + 1)), LAMBDA letters :
    Given(IF letters < Len(part) /\ part[letters + 1] = "^" THEN letters + 1 ELSE letters,
          LAMBDA caret :
        [ok |-> caret + DigitRun(From(part, caret + 1)) = Len(part),
         coefStr |-> SubSeq(part, 1, coef),
         variable |-> SubSeq(part, star + 1, letters),
         power |-> From(part, letters + 1)])))))))

ConstKey == <<"c", "o", "n", "s", "t">>

\* Variant: a lone sign counts as the coefficient 1.
TermCoefUnsigned(m) ==
    IF m.coefStr \in {<<>>, <<"+">>, <<"-">>} THEN Whole(1)
    ELSE parseFloat(m.coefStr)

\* The coefficient and the key of a matched term.
TermCoef(m) ==
    IF m.coefStr = <<>> \/ m.coefStr = <<"+">> THEN Whole(1)
    ELSE IF m.coefStr = <<"-">> THEN Whole(-1)
    ELSE parseFloat(m.coefStr)

TermKey(m) ==
    LET variable == IF m.variable = <<>> THEN ConstKey ELSE m.variable
        power == IF m.power # <<>> THEN SelectSeq(m.power, LAMBDA c : c # "^") ELSE <<"1">>
        \* power.replace('^', '') removes the first '^'; the match holds at most one
    IN  IF variable = ConstKey THEN ConstKey ELSE variable \o <<"^">> \o power

\* terms[key] || 0: absent keys, 0 and NaN all read as 0.
CoefOrZero(terms, key) ==
    IF key \in DOMAIN terms /\ ~IsNaN(terms[key]) THEN terms[key] ELSE Zero

RECURSIVE AccumulateTerms(_, _)
AccumulateTerms(parts, terms) ==
    IF parts = <<>> THEN terms
    ELSE Given(MatchTerm(Head(parts)), LAMBDA m :
             IF Head(parts) = <<>> \/ ~m.ok THEN AccumulateTerms(Tail(parts), terms)
             ELSE Given(TermKey(m), LAMBDA key :
                      AccumulateTerms(Tail(parts),
                          [k \in DOMAIN terms \cup {key} |->
                              IF k = key THEN Add(CoefOrZero(terms, key), TermCoef(m))
                              ELSE terms[k]])))

parseAlgebraic(expr) ==
    AccumulateTerms(SplitBeforeSigns(normalizeExpression(expr)), [k \in {} |-> Zero])

AlgebraicTolerance == Rat(1, 10000)

checkAlgebraicEquivalence(expr1, expr2) ==
    Given(parseAlgebraic(expr1), LAMBDA terms1 :
    Given(parseAlgebraic(expr2), LAMBDA terms2 :
        \A key \in DOMAIN terms1 \cup DOMAIN terms2 :
            ~Less(AlgebraicTolerance,
                  Abs(Sub(CoefOrZero(terms1, key), CoefOrZero(terms2, key))))))

----------------------------------------------------------------------------
(* checkEquivalence *)

DefaultTolerance == Rat(1, 10000)

HasLetter(s) == \E j \in DOMAIN s : IsLetter(s[j])

\* Variant: the exact tier compares the raw strings.
ExactMatchRaw(userAnswer, expectedAnswer) == userAnswer = expectedAnswer

\* userNorm === expectedNorm
ExactMatch(userAnswer, expectedAnswer) ==
    normalizeExpression(userAnswer) = normalizeExpression(expectedAnswer)

\* Variant: the difference is taken without its absolute value.
WithinAbove(userNum, expectedNum, bound) == LessEq(Sub(userNum, expectedNum), bound)

\* Variant: the bound itself is excluded.
WithinStrict(userNum, expectedNum, bound) == Less(Abs(Sub(userNum, expectedNum)), bound)

\* Math.abs(userNum - expectedNum) <= bound
Within(userNum, expectedNum, bound) == LessEq(Abs(Sub(userNum, expectedNum)), bound)

\* Variant: a near miss is tagged 'none' while still carrying the closeness
\* flag and the two values.
CheckEquivalenceRunCloseUntagged(userAnswer, expectedAnswer, options) ==
    Given(IF Has(options, "tolerance") THEN options.tolerance ELSE DefaultTolerance,
          LAMBDA tolerance :
    Given(normalizeExpression(userAnswer), LAMBDA userNorm :
    Given(normalizeExpression(expectedAnswer), LAMBDA expectedNorm :
        IF ExactMatch(userAnswer, expectedAnswer)
        THEN [result |-> [isEquivalent |-> TRUE, method |-> "exact"],
              evaluated |-> <<>>, algebraic |-> FALSE]
        ELSE
    Given(evaluateToNumber(userAnswer), LAMBDA userNum :
    Given(evaluateToNumber(expectedAnswer), LAMBDA expectedNum :
        IF userNum # Null /\ expectedNum # Null /\ Within(userNum, expectedNum, tolerance)
        THEN [result |-> [isEquivalent |-> TRUE, method |-> "numeric",
                          userValue |-> userNum, expectedValue |-> expectedNum],
              evaluated |-> <<userAnswer, expectedAnswer>>, algebraic |-> FALSE]
        ELSE IF userNum # Null /\ expectedNum # Null
                /\ Within(userNum, expectedNum, Mul(tolerance, Whole(100)))
        THEN [result |-> [isEquivalent |-> FALSE, method |-> "none", isClose |-> TRUE,
                          userValue |-> userNum, expectedValue |-> expectedNum],
              evaluated |-> <<userAnswer, expectedAnswer>>, algebraic |-> FALSE]
        ELSE IF ~(HasLetter(userNorm) /\ HasLetter(expectedNorm))
        THEN [result |-> [isEquivalent |-> FALSE, method |-> "none"],
              evaluated |-> <<userAnswer, expectedAnswer>>, algebraic |-> FALSE]
        ELSE IF checkAlgebraicEquivalence(userNorm, expectedNorm)
        THEN [result |-> [isEquivalent |-> TRUE, method |-> "algebraic"],
              evaluated |-> <<userAnswer, expectedAnswer>>, algebraic |-> TRUE]
        ELSE [result |-> [isEquivalent |-> FALSE, method |-> "none"],
              evaluated |-> <<userAnswer, expectedAnswer>>, algebraic |-> TRUE])))))

\* One call checkEquivalence(userAnswer, expectedAnswer, options): its result,
\* the expressions passed to evaluateToNumber, and whether
\* checkAlgebraicEquivalence was called.
CheckEquivalenceRun(userAnswer, expectedAnswer, options) ==
    Given(IF Has(options, "tolerance") THEN options.tolerance ELSE DefaultTolerance,
          LAMBDA tolerance :
    Given(normalizeExpression(userAnswer), LAMBDA userNorm :
    Given(normalizeExpression(expectedAnswer), LAMBDA expectedNorm :
        IF ExactMatch(userAnswer, expectedAnswer)
        THEN [result |-> [isEquivalent |-> TRUE, method |-> "exact"],
              evaluated |-> <<>>, algebraic |-> FALSE]
        ELSE
    Given(evaluateToNumber(userAnswer), LAMBDA userNum :
    Given(evaluateToNumber(expectedAnswer), LAMBDA expectedNum :
        IF userNum # Null /\ expectedNum # Null /\ Within(userNum, expectedNum, tolerance)
        THEN [result |-> [isEquivalent |-> TRUE, method |-> "numeric",
                          userValue |-> userNum, expectedValue |-> expectedNum],
              evaluated |-> <<userAnswer, expectedAnswer>>, algebraic |-> FALSE]
        ELSE IF userNum # Null /\ expectedNum # Null
                /\ Within(userNum, expectedNum, Mul(tolerance, Whole(100)))
        THEN [result |-> [isEquivalent |-> FALSE, method |-> "numeric", isClose |-> TRUE,
                          userValue |-> userNum, expectedValue |-> expectedNum],
              evaluated |-> <<userAnswer, expectedAnswer>>, algebraic |-> FALSE]
        ELSE IF ~(HasLetter(userNorm) /\ HasLetter(expectedNorm))
        THEN [result |-> [isEquivalent |-> FALSE, method |-> "none"],
              evaluated |-> <<userAnswer, expectedAnswer>>, algebraic |-> FALSE]
        ELSE IF checkAlgebraicEquivalence(userNorm, expectedNorm)
        THEN [result |-> [isEquivalent |-> TRUE, method |-> "algebraic"],
              evaluated |-> <<userAnswer, expectedAnswer>>, algebraic |-> TRUE]
        ELSE [result |-> [isEquivalent |-> FALSE, method |-> "none"],
              evaluated |-> <<userAnswer, expectedAnswer>>, algebraic |-> TRUE])))))

checkEquivalence(userAnswer, expectedAnswer, options) ==
    CheckEquivalenceRun(userAnswer, expectedAnswer, options).result

----------------------------------------------------------------------------
(* MISCONCEPTIONS and detectMisconceptions *)

\* |x - y| < eps
Near(x, y, eps) == Less(Abs(Sub(x, y)), eps)

\* [..].some((factor) => Math.abs(ratio - factor) < eps)
NearSome(ratio, factors, eps) == \E f \in factors : Near(ratio, f, eps)

\* The catalog, in its order.
MISCONCEPTIONS ==
    << [id |-> "sign_error", name |-> "Vorzeichenfehler",
        description |-> "Das Vorzeichen wurde verwechselt",
        hint |-> "Überprüfe die Vorzeichen in deiner Rechnung."],
       [id |-> "factor_error", name |-> "Faktor vergessen",
        description |-> "Ein Faktor wurde vergessen oder hinzugefügt",
        hint |-> "Überprüfe, ob du alle Faktoren berücksichtigt hast."],
       [id |-> "fraction_flip", name |-> "Bruch umgekehrt",
        description |-> "Zähler und Nenner wurden vertauscht",
        hint |-> "Überprüfe, ob Zähler und Nenner in der richtigen Position sind."],
       [id |-> "order_of_operations", name |-> "Rechenreihenfolge",
        description |-> "Punkt vor Strich nicht beachtet",
        hint |-> "Denke an die Rechenreihenfolge: Klammern, Potenzen, Punkt vor Strich."],
       [id |-> "power_error", name |-> "Potenzfehler",
        description |-> "Fehler beim Potenzieren",
        hint |-> "Überprüfe die Potenz- und Wurzeloperationen."],
       [id |-> "decimal_error", name |-> "Kommafehler",
        description |-> "Das Dezimalkomma wurde falsch gesetzt",
        hint |-> "Überprüfe die Position des Dezimalkommas."],
       [id |-> "unit_conversion", name |-> "Einheitenfehler",
        description |-> "Einheiten wurden nicht korrekt umgerechnet",
        hint |-> "Überprüfe, ob du alle Einheiten korrekt umgerechnet hast."] >>

\* misconception.check(user, expected)
MisconceptionCheck(id, user, expected) ==
    Given(evaluateToNumber(user), LAMBDA userNum :
    Given(evaluateToNumber(expected), LAMBDA expectedNum :
        /\ userNum # Null
        /\ expectedNum # Null
        /\ CASE id = "sign_error" ->
                  Less(Abs(Add(userNum, expectedNum)), Rat(1, 10000))
             [] id = "factor_error" ->
                  expectedNum # Zero
                  /\ NearSome(Div(userNum, expectedNum),
                              {Whole(2), Rat(1, 2), Whole(10), Rat(1, 10), MathPI,
                               Div(Whole(1), MathPI)},
                              Rat(1, 1000))
             [] id = "fraction_flip" ->
                  userNum # Zero /\ Near(Mul(userNum, expectedNum), Whole(1), Rat(1, 10000))
             [] id = "order_of_operations" -> FALSE
             [] id = "power_error" ->
                  Less(Zero, expectedNum)
                  /\ \/ Near(userNum, Sqrt(expectedNum), Rat(1, 1000))
                     \/ Near(userNum, Mul(expectedNum, expectedNum), Rat(1, 1000))
             [] id = "decimal_error" ->
                  expectedNum # Zero
                  /\ NearSome(Div(userNum, expectedNum),
                              {Whole(10), Whole(100), Whole(1000),
                               Rat(1, 10), Rat(1, 100), Rat(1, 1000)},
                              Rat(1, 10000))
             [] id = "unit_conversion" ->
                  expectedNum # Zero
                  /\ NearSome(Div(userNum, expectedNum),
                              {Whole(60), Rat(1, 60), Whole(3600), Rat(1, 3600),
                               Whole(1000), Rat(1, 1000), Whole(100), Rat(1, 100)},
                              Rat(1, 10000))))

\* Variant: the search stops at the first entry whose check holds.
DetectFirst(userAnswer, expectedAnswer) ==
    LET hits == {j \in DOMAIN MISCONCEPTIONS :
                     MisconceptionCheck(MISCONCEPTIONS[j].id, userAnswer, expectedAnswer)}
    IN  IF hits = {} THEN <<>>
        ELSE <<MISCONCEPTIONS[CHOOSE j \in hits : \A k \in hits : j <= k]>>

\* The checks call only evaluateToNumber and arithmetic, which never throw.
detectMisconceptions(userAnswer, expectedAnswer) ==
    SelectSeq(MISCONCEPTIONS, LAMBDA m : MisconceptionCheck(m.id, userAnswer, expectedAnswer))

----------------------------------------------------------------------------
(* handleEvaluateAnswer, phase 1: the evaluation by question type *)

\* Values of the request body.  A string is its characters, an array its
\* elements; null and undefined are values of their own.  A field the body
\* lacks is absent from the record and reads as undefined.
Str(s) == [t |-> "string", chars |-> s]
Arr(a) == [t |-> "array", items |-> a]
Obj(r) == [t |-> "object", fields |-> r]
JsNull == [t |-> "null"]
JsUndef == [t |-> "undefined"]

\* a === b on these values; two arrays or objects are never the same object.
StrictEquals(a, b) ==
    IF a.t # b.t THEN FALSE
    ELSE IF a.t = "string" THEN a.chars = b.chars
    ELSE a.t \in {"null", "undefined"}

RECURSIVE JoinWith(_, _)
JoinWith(parts, sep) ==
    IF parts = <<>> THEN <<>>
    ELSE IF Len(parts) = 1 THEN parts[1]
    ELSE parts[1] \o sep \o JoinWith(Tail(parts), sep)

\* String(value)
RECURSIVE String(_)
String(value) ==
    CASE value.t = "string" -> value.chars
      [] value.t = "undefined" -> <<"u", "n", "d", "e", "f", "i", "n", "e", "d">>
      [] value.t = "null" -> <<"n", "u", "l", "l">>
      [] value.t = "array" ->
           JoinWith([j \in DOMAIN value.items |->
                        IF value.items[j].t \in {"null", "undefined"} THEN <<>>
                        ELSE String(value.items[j])], <<",">>)
      [] value.t = "object" ->
           <<"[", "o", "b", "j", "e", "c", "t", " ", "O", "b", "j", "e", "c", "t", "]">>

\* The decimal text of a natural number.
RECURSIVE NumberText(_)
NumberText(n) ==
    IF n < 10 THEN <<DigitChars[n + 1]>>
    ELSE NumberText(n \div 10) \o <<DigitChars[(n % 10) + 1]>>

\* x || fallback for a number: 0 and NaN give the fallback.
NumberOr(r, f, fallback) ==
    IF Has(r, f) /\ r[f] # Zero /\ ~IsNaN(r[f]) THEN r[f] ELSE fallback

\* x || '' for a string.
TextOr(r, f, fallback) == IF Has(r, f) /\ r[f] # <<>> THEN r[f] ELSE fallback

\* array.find(test) as a sequence of at most one element.
FindFirst(seq, Test(_)) ==
    LET hits == {j \in DOMAIN seq : Test(seq[j])}
    IN  IF hits = {} THEN <<>>
        ELSE <<seq[CHOOSE j \in hits : \A k \in hits : j <= k]>>

DefaultAnswerTolerance == Rat(1, 100)

\* What phase 1 leaves behind: the five locals, the calls of checkEquivalence
\* it made, and whether it threw.
Phase1Result(isCorrect, correctAnswer, feedback, equivalenceResult, misconceptions, made) ==
    [threw |-> FALSE, isCorrect |-> isCorrect, correctAnswer |-> correctAnswer,
     feedback |-> feedback, equivalenceResult |-> equivalenceResult,
     misconceptions |-> misconceptions, calls |-> made]

MultipleChoice(questionData, userAnswer) ==
    LET options == IF Has(questionData, "options") THEN questionData.options ELSE <<>>
        flagged == FindFirst(options, LAMBDA opt : Has(opt, "isCorrect") /\ opt.isCorrect)
        correctAnswer == IF flagged # <<>> /\ flagged[1].id # <<>>
                         THEN Str(flagged[1].id) ELSE JsNull
        isCorrect == StrictEquals(userAnswer, correctAnswer)
        userOption == FindFirst(options, LAMBDA opt : StrictEquals(Str(opt.id), userAnswer))
        chosen == IF userOption # <<>> /\ userOption[1].text # <<>>
                  THEN userOption[1].text ELSE <<"keine Antwort">>
        explanation == TextOr(questionData, "explanation", <<>>)
        feedback == IF isCorrect THEN <<"Richtig! ">> \o explanation
                    ELSE <<"Leider falsch. Du hast \"">> \o chosen
                             \o <<"\" gewählt. ">> \o explanation
    IN  Phase1Result(isCorrect, correctAnswer, feedback, JsNull, <<>>, <<>>)

\* userAnswer[index] as phase 1 reads it for a step (index from 0).
UserStepAnswer(userAnswer, index) ==
    IF userAnswer.t = "array"
    THEN IF index + 1 \in DOMAIN userAnswer.items THEN userAnswer.items[index + 1]
         ELSE JsUndef
    ELSE IF userAnswer.t = "object"
    THEN IF index \in DOMAIN userAnswer.fields THEN userAnswer.fields[index]
         ELSE JsUndef
    ELSE Str(<<>>)

\* Variant: the misconceptions of a step are detected whatever the verdict.
StepResultDetectAlways(step, userAnswer, index) ==
    Given(String(UserStepAnswer(userAnswer, index)), LAMBDA actual :
    Given(checkEquivalence(actual, step.expectedAnswer,
              [tolerance |-> NumberOr(step, "tolerance", DefaultAnswerTolerance)]),
          LAMBDA result :
        [stepNumber |-> step.stepNumber,
         correct |-> result.isEquivalent,
         expected |-> step.expectedAnswer,
         actual |-> actual,
         equivalenceMethod |-> result.method,
         isClose |-> Has(result, "isClose") /\ result.isClose,
         misconceptions |-> detectMisconceptions(actual, step.expectedAnswer)]))

\* The StepResult of one step.
StepResultOf(step, userAnswer, index) ==
    Given(String(UserStepAnswer(userAnswer, index)), LAMBDA actual :
    Given(checkEquivalence(actual, step.expectedAnswer,
              [tolerance |-> NumberOr(step, "tolerance", DefaultAnswerTolerance)]),
          LAMBDA result :
        [stepNumber |-> step.stepNumber,
         correct |-> result.isEquivalent,
         expected |-> step.expectedAnswer,
         actual |-> actual,
         equivalenceMethod |-> result.method,
         isClose |-> Has(result, "isClose") /\ result.isClose,
         misconceptions |-> IF ~result.isEquivalent
                            THEN detectMisconceptions(actual, step.expectedAnswer)
                            ELSE <<>>]))

\* The call of checkEquivalence made for one step.
StepCall(step, userAnswer, index) ==
    [user |-> String(UserStepAnswer(userAnswer, index)),
     expected |-> step.expectedAnswer,
     options |-> [tolerance |-> NumberOr(step, "tolerance", DefaultAnswerTolerance)]]

\* [...new Map(misconceptions.map((m) => [m.id, m])).values()]
RECURSIVE UniqueById(_)
UniqueById(ms) ==
    IF ms = <<>> THEN <<>>
    ELSE LET front == UniqueById(SubSeq(ms, 1, Len(ms) - 1))
             last == ms[Len(ms)]
         IN  IF \E j \in DOMAIN front : front[j].id = last.id THEN front
             ELSE Append(front, last)

\* The lines "U+2022 name: hint\n" of a list of misconceptions.
RECURSIVE HintLines(_)
HintLines(ms) ==
    IF ms = <<>> THEN <<>>
    ELSE <<"U+2022", " ", Head(ms).name, ": ", Head(ms).hint, "\n">> \o HintLines(Tail(ms))

\* Variant: one correct step is enough.
SomeCorrect(stepResults) == \E j \in DOMAIN stepResults : stepResults[j].correct

\* stepResults.every((r) => r.correct)
AllCorrect(stepResults) == \A j \in DOMAIN stepResults : stepResults[j].correct

\* The feedback of a step-by-step question.
StepFeedback(stepResults, misconceptions, explanation) ==
    LET wrongSteps == SelectSeq(stepResults, LAMBDA r : ~r.correct)
        wrongStepNumbers == [j \in DOMAIN wrongSteps |-> NumberText(wrongSteps[j].stepNumber)]
        closeSteps == SelectSeq(wrongSteps, LAMBDA r : r.isClose)
        closeStepNumbers == [j \in DOMAIN closeSteps |-> NumberText(closeSteps[j].stepNumber)]
        hints == IF misconceptions # <<>>
                 THEN <<"\n\nMögliche Fehlerquellen:\n">> \o HintLines(UniqueById(misconceptions))
                 ELSE <<>>
        close == IF closeSteps # <<>>
                 THEN <<"\nBei Schritt ">> \o JoinWith(closeStepNumbers, <<", ">>)
                          \o <<" warst du nahe dran!">>
                 ELSE <<>>
    IN  IF AllCorrect(stepResults) THEN <<"Alle Schritte korrekt! ">> \o explanation
        ELSE <<"Nicht alle Schritte waren korrekt. Fehler in Schritt(en): ">>
                 \o JoinWith(wrongStepNumbers, <<", ">>) \o <<". ">>
                 \o hints \o close \o <<"\n\n">> \o explanation

\* Variant: the list of misconceptions holds each id once.
StepByStepDeduplicated(questionData, userAnswer) ==
    Given(IF Has(questionData, "steps") THEN questionData.steps ELSE <<>>, LAMBDA steps :
        IF steps # <<>> /\ userAnswer.t = "null"
        THEN [threw |-> TRUE, message |-> "Cannot read properties of null"]
        ELSE
    Given([j \in DOMAIN steps |-> StepResultOf(steps[j], userAnswer, j - 1)],
          LAMBDA stepResults :
    Given(UniqueById(Flatten([j \in DOMAIN stepResults |-> stepResults[j].misconceptions])),
          LAMBDA misconceptions :
        Phase1Result(AllCorrect(stepResults),
                     Arr([j \in DOMAIN steps |-> Str(steps[j].expectedAnswer)]),
                     StepFeedback(stepResults, misconceptions,
                                  TextOr(questionData, "explanation", <<>>)),
                     Arr(stepResults),
                     misconceptions,
                     [j \in DOMAIN steps |-> StepCall(steps[j], userAnswer, j - 1)]))))

\* userAnswer[index] on null throws a TypeError as soon as there is a step.
StepByStep(questionData, userAnswer) ==
    Given(IF Has(questionData, "steps") THEN questionData.steps ELSE <<>>, LAMBDA steps :
        IF steps # <<>> /\ userAnswer.t = "null"
        THEN [threw |-> TRUE, message |-> "Cannot read properties of null"]
        ELSE
    Given([j \in DOMAIN steps |-> StepResultOf(steps[j], userAnswer, j - 1)],
          LAMBDA stepResults :
    Given(Flatten([j \in DOMAIN stepResults |-> stepResults[j].misconceptions]),
          LAMBDA misconceptions :
        Phase1Result(AllCorrect(stepResults),
                     Arr([j \in DOMAIN steps |-> Str(steps[j].expectedAnswer)]),
                     StepFeedback(stepResults, misconceptions,
                                  TextOr(questionData, "explanation", <<>>)),
                     Arr(stepResults),
                     misconceptions,
                     [j \in DOMAIN steps |-> StepCall(steps[j], userAnswer, j - 1)]))))

\* The feedback of a free-form or numeric question.
AnswerFeedback(result, expected, misconceptions, explanation) ==
    IF result.isEquivalent /\ result.method = "algebraic"
    THEN <<"Richtig! Deine Antwort ist algebraisch äquivalent. ">> \o explanation
    ELSE IF result.isEquivalent THEN <<"Richtig! ">> \o explanation
    ELSE <<"Leider falsch. Die richtige Antwort ist ">> \o expected \o <<". ">>
             \o (IF Has(result, "isClose") /\ result.isClose
                 THEN <<"Du warst sehr nahe dran! ">> ELSE <<>>)
             \o (IF misconceptions # <<>>
                 THEN <<"\n\nMögliche Fehlerquellen:\n">> \o HintLines(misconceptions)
                 ELSE <<>>)
             \o <<"\n">> \o explanation

FreeFormOrNumeric(questionData, userAnswer) ==
    Given(TextOr(questionData, "correctAnswer", TextOr(questionData, "expectedAnswer", <<>>)),
          LAMBDA expected :
    Given(NumberOr(questionData, "tolerance", DefaultAnswerTolerance), LAMBDA tolerance :
    Given(String(userAnswer), LAMBDA actual :
    Given(checkEquivalence(actual, expected, [tolerance |-> tolerance]), LAMBDA result :
    Given(IF ~result.isEquivalent THEN detectMisconceptions(actual, expected) ELSE <<>>,
          LAMBDA misconceptions :
        Phase1Result(result.isEquivalent,
                     Str(expected),
                     AnswerFeedback(result, expected, misconceptions,
                                    TextOr(questionData, "explanation", <<>>)),
                     Obj(result),
                     misconceptions,
                     <<[user |-> actual, expected |-> expected,
                        options |-> [tolerance |-> tolerance]]>>))))))

\* The state of the locals before phase 1, kept by a question of any other type.
Untouched == Phase1Result(FALSE, JsNull, <<>>, JsNull, <<>>, <<>>)

Phase1(questionData, userAnswer) ==
    LET type == IF Has(questionData, "type") THEN questionData.type ELSE "undefined"
    IN  IF type = "multiple-choice" THEN MultipleChoice(questionData, userAnswer)
        ELSE IF type = "step-by-step" THEN StepByStep(questionData, userAnswer)
        ELSE IF type \in {"free-form", "numeric"} THEN FreeFormOrNumeric(questionData, userAnswer)
        ELSE Untouched

----------------------------------------------------------------------------
(* handleEvaluateAnswer, phases 2 to 5: XP and coins *)

BASE_XP == <<10, 15, 20, 30, 50, 60, 75, 90, 110, 130>>
BASE_COINS == <<1, 1, 2, 2, 3, 3, 4, 4, 5, 5>>

\* BASE_XP[questionData.difficulty] || 20
BaseXp(questionData) ==
    IF Has(questionData, "difficulty") /\ questionData.difficulty \in DOMAIN BASE_XP
    THEN Whole(BASE_XP[questionData.difficulty]) ELSE Whole(20)

\* BASE_COINS[questionData.difficulty] || 2
BaseCoins(questionData) ==
    IF Has(questionData, "difficulty") /\ questionData.difficulty \in DOMAIN BASE_COINS
    THEN Whole(BASE_COINS[questionData.difficulty]) ELSE Whole(2)

\* Variant: the third hint costs less than the second.
HINT_PENALTY_RISING ==
    [h \in 0..3 |-> CASE h = 0 -> Whole(1)
                      [] h = 1 -> Rat(85, 100)
                      [] h = 2 -> Rat(65, 100)
                      [] h = 3 -> Rat(7, 10)]

HINT_PENALTY_MULTIPLIER ==
    [h \in 0..3 |-> CASE h = 0 -> Whole(1)
                      [] h = 1 -> Rat(85, 100)
                      [] h = 2 -> Rat(65, 100)
                      [] h = 3 -> Rat(4, 10)]

\* body.field || 0 for a count
CountOr0(body, f) == IF Has(body, f) THEN body[f] ELSE 0

\* (questionData.difficulty || 5) * 60
ExpectedTime(questionData) ==
    IF Has(questionData, "difficulty") /\ questionData.difficulty # 0
    THEN questionData.difficulty * 60 ELSE 5 * 60

\* timeSpent && timeSpent < expectedTime * 0.5
IsFast(body) ==
    /\ Has(body, "timeSpent")
    /\ body.timeSpent # 0
    /\ Less(Whole(body.timeSpent), Mul(Whole(ExpectedTime(body.questionData)), Rat(1, 2)))

\* correctStreak && correctStreak >= n
StreakAtLeast(body, n) ==
    Has(body, "correctStreak") /\ body.correctStreak # 0 /\ body.correctStreak >= n

\* Variant: a streak of 3 is enough for the freeze.
StreakFrozenFromThree(body) ==
    /\ Has(body, "streakFreezeAvailable")
    /\ body.streakFreezeAvailable
    /\ StreakAtLeast(body, 3)

\* streakFreezeAvailable && correctStreak && correctStreak >= 5
StreakFrozen(body) ==
    /\ Has(body, "streakFreezeAvailable")
    /\ body.streakFreezeAvailable
    /\ StreakAtLeast(body, 5)

\* Variant: the two streak bonuses add up.
StreakBonusStacked(body, xp) ==
    Add(IF StreakAtLeast(body, 5) THEN Mul(xp, Rat(1, 2)) ELSE Zero,
        IF StreakAtLeast(body, 3) THEN Mul(xp, Rat(1, 4)) ELSE Zero)

\* The streak bonus on the running xp.
StreakBonus(body, xp) ==
    IF StreakAtLeast(body, 5) THEN Mul(xp, Rat(1, 2))
    ELSE IF StreakAtLeast(body, 3) THEN Mul(xp, Rat(1, 4))
    ELSE Zero

\* Phase 3: the XP of a correct answer.
XpOf(body, equivalenceResult) ==
    Given(BaseXp(body.questionData), LAMBDA baseXp :
    Given(CountOr0(body, "hintsUsed"), LAMBDA hints :
    Given(HINT_PENALTY_MULTIPLIER[IF hints < 3 THEN hints ELSE 3], LAMBDA hintMultiplier :
    Given(Mul(baseXp, Sub(Whole(1), hintMultiplier)), LAMBDA hintPenalty :
    Given(Mul(baseXp, hintMultiplier), LAMBDA afterHints :
    Given(IF IsFast(body) THEN Mul(baseXp, Rat(2, 10)) ELSE Zero, LAMBDA timeBonus :
    Given(Add(afterHints, timeBonus), LAMBDA afterTime :
    Given(StreakBonus(body, afterTime), LAMBDA streakBonus :
    Given(Add(afterTime, streakBonus), LAMBDA afterStreak :
    Given(IF equivalenceResult.t = "object"
             /\ equivalenceResult.fields.method = "algebraic"
          THEN Mul(baseXp, Rat(1, 10)) ELSE Zero, LAMBDA equivalenceBonus :
    Given(Add(afterStreak, equivalenceBonus), LAMBDA xp :
        [base |-> baseXp,
         hintPenalty |-> Neg(MathRound(hintPenalty)),
         timePenalty |-> Zero,
         timeBonus |-> MathRound(timeBonus),
         streakBonus |-> MathRound(streakBonus),
         equivalenceBonus |-> MathRound(equivalenceBonus),
         total |-> MathRound(xp)])))))))))))

\* Phase 4: the coins of a correct answer.
CoinsOf(body) ==
    Given(BaseCoins(body.questionData), LAMBDA baseCoins :
    Given(Has(body, "isFirstQuestionToday") /\ body.isFirstQuestionToday,
          LAMBDA isFirstQuestion :
    Given(Has(body, "dailyStreak") /\ body.dailyStreak # 0 /\ body.dailyStreak >= 5,
          LAMBDA daily :
    Given(CountOr0(body, "hintsUsed") = 0 /\ IsFast(body), LAMBDA isPerfect :
    Given(Mul(Mul(IF isFirstQuestion THEN Whole(2) ELSE Whole(1),
                  IF daily THEN Rat(3, 2) ELSE Whole(1)),
              IF isPerfect THEN Rat(5, 4) ELSE Whole(1)), LAMBDA coinMultiplier :
        [base |-> baseCoins,
         multiplier |-> coinMultiplier,
         bonuses |->
            (IF isFirstQuestion THEN <<[type |-> "firstQuestion", bonus |-> "x2"]>> ELSE <<>>)
            \o (IF daily THEN <<[type |-> "streakBonus", bonus |-> "+50%"]>> ELSE <<>>)
            \o (IF isPerfect THEN <<[type |-> "perfect", bonus |-> "+25%"]>> ELSE <<>>),
         total |-> MathRound(Mul(baseCoins, coinMultiplier))])))))

SkippedResponse(body, locals) ==
    [status |-> 200, success |-> TRUE, isCorrect |-> FALSE,
     feedback |-> <<"Frage übersprungen">>,
     correctAnswer |-> locals.correctAnswer,
     xpEarned |-> Zero, coinsEarned |-> Zero,
     xpBreakdown |-> [base |-> BaseXp(body.questionData),
                      hintPenalty |-> Neg(BaseXp(body.questionData)),
                      timePenalty |-> Zero, bonuses |-> Zero, total |-> Zero],
     coinBreakdown |-> [base |-> BaseCoins(body.questionData),
                        multiplier |-> Zero, total |-> Zero],
     misconceptions |-> <<>>,
     equivalenceResult |-> JsNull]

IncorrectResponse(body, locals) ==
    [status |-> 200, success |-> TRUE, isCorrect |-> FALSE,
     feedback |-> locals.feedback \o
                  (IF StreakFrozen(body)
                   THEN <<"\n\n", "U+2744", "U+FE0F",
                          " Dein Streak wurde durch ein Streak-Freeze geschützt!">>
                   ELSE <<>>),
     correctAnswer |-> locals.correctAnswer,
     xpEarned |-> Zero, coinsEarned |-> Zero,
     xpBreakdown |-> [base |-> BaseXp(body.questionData),
                      hintPenalty |-> Zero, timePenalty |-> Zero,
                      bonuses |-> Zero, total |-> Zero],
     coinBreakdown |-> [base |-> BaseCoins(body.questionData),
                        multiplier |-> Zero, total |-> Zero],
     misconceptions |-> locals.misconceptions,
     equivalenceResult |-> locals.equivalenceResult,
     streakFrozen |-> StreakFrozen(body)]

CorrectResponse(body, locals) ==
    Given(XpOf(body, locals.equivalenceResult), LAMBDA xpBreakdown :
    Given(CoinsOf(body), LAMBDA coinBreakdown :
        [status |-> 200, success |-> TRUE, isCorrect |-> TRUE,
         feedback |-> locals.feedback,
         correctAnswer |-> locals.correctAnswer,
         xpEarned |-> xpBreakdown.total,
         coinsEarned |-> coinBreakdown.total,
         xpBreakdown |-> xpBreakdown,
         coinBreakdown |-> coinBreakdown,
         misconceptions |-> <<>>,
         equivalenceResult |-> locals.equivalenceResult]))

MissingFieldsResponse ==
    [status |-> 400, success |-> FALSE,
     error |-> "Missing required fields: questionData, userAnswer"]

InternalErrorResponse(message) ==
    [status |-> 500, success |-> FALSE, error |-> "Internal server error",
     message |-> message]

----------------------------------------------------------------------------
(* The inputs considered *)

\* Expected answers of the question bank.
ExpectedAnswers ==
    { <<"0", ".", "5">>, <<"1", "/", "2">>, <<"4">>, <<"-", "4">>, <<"2">>,
      <<"x", "+", "1">>, <<"1", "+", "x">>, <<"2", "x">>, <<"2", "y">>, <<"3">>,
      <<"s", "q", "r", "t", "(", "1", "6", ")">>, <<"1", "0", "1">> }

\* Answers as a user may type them: every string of at most MaxLen characters
\* over AnswerChars, the expected answers, and further answers.
MaxLen == 2
AnswerChars == {"0", "1", "2", ".", "/", "+", "-", "*", "x", " "}
UserAnswers ==
    UNION {[1..n -> AnswerChars] : n \in 0..MaxLen}
    \cup ExpectedAnswers
    \cup { <<"3", "x">>, <<"2", "*", "X">>, <<" ", "1", " ", "+", "x">>, <<"1", "0", "0">>,
           <<"1", "0", "2">>, <<"4", ".", "0", "1">>, <<"0", ".", "2", "5">>,
           <<"s", "q", "r", "t", "(", "4", ")", ";", "x">>,
           <<"s", "q", "r", "t", "(", "4", ")", "x">>,
           <<"U+221A", "(", "1", "6", ")">>, <<"x", "U+00B2">>, <<"p", "i">>,
           <<"2", "y", "+", ".", "x">> }

\* The options of a checkEquivalence call: a tolerance, or none.
ToleranceOptions == {[tolerance |-> Rat(1, 100)], [tolerance |-> Rat(1, 2)], <<>>}

----------------------------------------------------------------------------
(* SpecEq: one call of checkEquivalence on arguments drawn from the inputs *)

Pending == [method |-> "pending"]
NoTrace == [evaluated |-> <<>>, algebraic |-> FALSE, code |-> <<>>]
InitEq ==
    /\ input \in [user : UserAnswers, expected : ExpectedAnswers, options : ToleranceOptions]
    /\ verdict = Pending
    /\ trace = NoTrace
    /\ pc = "idle"
    /\ req = <<>>
    /\ phase1 = <<>>
    /\ calls = <<>>
    /\ resp = <<>>

CallCheckEquivalence ==
    /\ verdict = Pending
    /\ \E run \in {CheckEquivalenceRun(input.user, input.expected, input.options)} :
           /\ verdict' = run.result
           /\ trace' = [evaluated |-> run.evaluated,
                        algebraic |-> run.algebraic,
                        code |-> Flatten([j \in DOMAIN run.evaluated |->
                                              HandedToFunction(run.evaluated[j])])]
    /\ UNCHANGED <<input, pc, req, phase1, calls, resp>>

NextEq == CallCheckEquivalence

SpecEq == InitEq /\ [][NextEq]_vars

----------------------------------------------------------------------------
(* SpecMis: one call of detectMisconceptions on arguments drawn from the inputs *)

CallDetectMisconceptions ==
    /\ verdict = Pending
    /\ verdict' = [method |-> "misconceptions",
                   detected |-> detectMisconceptions(input.user, input.expected)]
    /\ UNCHANGED <<input, trace, pc, req, phase1, calls, resp>>

SpecMis == InitEq /\ [][CallDetectMisconceptions]_vars

----------------------------------------------------------------------------
(* SpecFn: the helper functions applied to arguments drawn from the inputs *)

\* The arguments: the answers of SpecEq, undefined (null normalizes like
\* ''), and further texts.
InitFn ==
    /\ input \in [user : UserAnswers
                            \cup { Undefined, <<"x", " ", "+", " ", "x">>, <<"+", "+", "1">>,
                                   <<"(">>, <<"1", "+", "1">>, <<"-", "x", "-", "x">>,
                                   <<" ", "+", "2", "X">>, <<"2", "U+03C0">>,
                                   <<"+", "\t", "+", "3", "Y", "U+00B3">> },
                  expected : ExpectedAnswers, options : ToleranceOptions]
    /\ verdict = Pending
    /\ trace = NoTrace
    /\ pc = "idle"
    /\ req = <<>>
    /\ phase1 = <<>>
    /\ calls = <<>>
    /\ resp = <<>>

\* normalizeExpression, normalizeExpression of its result, evaluateToNumber
\* and parseAlgebraic applied to the first argument.
CallOnAnswer ==
    /\ verdict = Pending
    /\ \E normalized \in {normalizeExpression(input.user)} :
           verdict' = [method |-> "applied",
                       normalized |-> normalized,
                       renormalized |-> normalizeExpression(normalized),
                       number |-> evaluateToNumber(input.user),
                       terms |-> parseAlgebraic(input.user)]
    /\ UNCHANGED <<input, trace, pc, req, phase1, calls, resp>>

\* checkEquivalence applied to the two arguments in both orders.
CallBothWays ==
    /\ verdict = Pending
    /\ verdict' = [method |-> "compared",
                   straight |-> checkEquivalence(input.user, input.expected, input.options),
                   swapped |-> checkEquivalence(input.expected, input.user, input.options)]
    /\ UNCHANGED <<input, trace, pc, req, phase1, calls, resp>>

SpecFn == InitFn /\ [][CallOnAnswer \/ CallBothWays]_vars

----------------------------------------------------------------------------
(* Spec: one request to handleEvaluateAnswer *)

\* r with the fields of extra added.
With(r, extra) ==
    [k \in DOMAIN r \cup DOMAIN extra |-> IF k \in DOMAIN extra THEN extra[k] ELSE r[k]]

\* The pairs of a question and an answer to it.
Submissions ==
    LET Four == Str(<<"4">>)
        OnePlusX == Str(<<"1", "+", "x">>)
        Half == Str(<<"1", "/", "2">>)
        QMultipleChoice ==
            [type |-> "multiple-choice", explanation |-> <<"E">>,
             options |-> << [id |-> <<"a">>, text |-> <<"A">>],
                            [id |-> <<"b">>, text |-> <<"B">>, isCorrect |-> TRUE] >>]
        QNoneFlagged ==
            [type |-> "multiple-choice", options |-> << [id |-> <<"a">>, text |-> <<"A">>] >>]
        QSteps ==
            [type |-> "step-by-step", explanation |-> <<"E">>,
             steps |-> << [stepNumber |-> 1, expectedAnswer |-> <<"4">>],
                          [stepNumber |-> 2, expectedAnswer |-> <<"x", "+", "1">>],
                          [stepNumber |-> 3, expectedAnswer |-> <<"0", ".", "5">>,
                           tolerance |-> Rat(1, 2)] >>]
        QNoSteps == [type |-> "step-by-step"]
        QFreeForm ==
            [type |-> "free-form", explanation |-> <<"E">>,
             correctAnswer |-> <<"x", "+", "1">>]
        QNumeric == [type |-> "numeric", expectedAnswer |-> <<"0", ".", "5">>]
        QExact == [type |-> "numeric", expectedAnswer |-> <<"0", ".", "5">>,
                   tolerance |-> Zero]
        QNoExpected == [type |-> "free-form"]
        QOtherType == [type |-> "fill-in", correctAnswer |-> <<"4">>]
        QNoType == [correctAnswer |-> <<"4">>]
    IN  ({QMultipleChoice} \X {Str(<<"b">>), Str(<<"a">>), Str(<<"z">>), JsNull})
        \cup ({QNoneFlagged} \X {Str(<<"a">>), JsNull})
        \cup ({QSteps} \X { Arr(<<Four, OnePlusX, Half>>),
                            Arr(<<Four, Str(<<"2", "x">>), Half>>),
                            Arr(<<Str(<<"-", "4">>), OnePlusX, Str(<<"-", "0", ".", "5">>)>>),
                            Arr(<<Four, OnePlusX, Str(<<"1">>)>>),
                            Arr(<<Four>>),
                            Obj([j \in 0..2 |-> <<Four, OnePlusX, Half>>[j + 1]]),
                            Four,
                            JsNull })
        \cup ({QNoSteps} \X {Four, JsNull})
        \cup ({QFreeForm} \X {OnePlusX, Str(<<"x", "+", "1">>), Str(<<"2", "x">>), JsNull})
        \cup ({QNumeric} \X {Half, Str(<<"0", ".", "6">>), Str(<<"-", "0", ".", "5">>),
                             Str(<<"5">>)})
        \cup ({QExact} \X {Str(<<"0", ".", "6">>)})
        \cup ({QNoExpected} \X {Str(<<>>), Str(<<"1">>)})
        \cup ({QOtherType, QNoType} \X {Four})

\* The bodies as they arrive: questionData, userAnswer and skipped, each of
\* which may be missing.  The remaining fields of a body are fixed when the
\* handler first reads them.
Bodies ==
    LET full == {[questionData |-> p[1], userAnswer |-> p[2]] : p \in Submissions}
        partial == {[questionData |-> p[1]] : p \in Submissions}
                   \cup {[userAnswer |-> p[2]] : p \in Submissions}
                   \cup {<<>>}
    IN  {With(b, k) : b \in full \cup partial, k \in {<<>>, [skipped |-> TRUE]}}

\* The values a field that is read later may hold: the field f with a value
\* of values, or no such field.
Optional(f, values) == {<<>>} \cup {[k \in {f} |-> v] : v \in values}

MaxDifficulty == 11
MaxHints == 4
\* The body with questionData.difficulty and further fields fixed.
Fixed(body, difficulty, fields) ==
    With([body EXCEPT !.questionData = With(@, difficulty)], fields)

Init ==
    /\ pc = "received"
    /\ req \in Bodies
    /\ phase1 = <<>>
    /\ calls = <<>>
    /\ resp = <<>>
    /\ input = <<>>
    /\ verdict = Pending
    /\ trace = NoTrace

Valid(body) == Has(body, "questionData") /\ Has(body, "userAnswer")
\* Variant: the skipped flag is not looked at.
SkippedIgnored(body) == FALSE

Skipped(body) == Has(body, "skipped") /\ body.skipped

\* if (!questionData || userAnswer === undefined) throw new APIError(..., 400)
RejectMissingFields ==
    /\ pc = "received"
    /\ ~Valid(req)
    /\ resp' = MissingFieldsResponse
    /\ pc' = "done"
    /\ UNCHANGED <<req, phase1, calls, input, verdict, trace>>

\* Phase 1 runs to its end.
Evaluate ==
    /\ pc = "received"
    /\ Valid(req)
    /\ \E r \in {Phase1(req.questionData, req.userAnswer)} :
           /\ ~r.threw
           /\ phase1' = [f \in DOMAIN r \ {"threw", "calls"} |-> r[f]]
           /\ calls' = r.calls
    /\ pc' = "evaluated"
    /\ UNCHANGED <<req, resp, input, verdict, trace>>

\* Phase 1 throws something other than an APIError.
FailInternal ==
    /\ pc = "received"
    /\ Valid(req)
    /\ \E r \in {Phase1(req.questionData, req.userAnswer)} :
           /\ r.threw
           /\ resp' = InternalErrorResponse(r.message)
    /\ pc' = "done"
    /\ UNCHANGED <<req, phase1, calls, input, verdict, trace>>

RespondSkipped ==
    /\ pc = "evaluated"
    /\ Skipped(req)
    /\ \E d \in Optional("difficulty", 0..MaxDifficulty) :
           LET body == Fixed(req, d, <<>>)
           IN  /\ req' = body
               /\ resp' = SkippedResponse(body, phase1)
    /\ pc' = "done"
    /\ UNCHANGED <<phase1, calls, input, verdict, trace>>

RespondIncorrect ==
    /\ pc = "evaluated"
    /\ ~Skipped(req)
    /\ ~phase1.isCorrect
    /\ \E d \in Optional("difficulty", 0..MaxDifficulty),
          s \in Optional("correctStreak", {0, 2, 3, 5}),
          z \in Optional("streakFreezeAvailable", {TRUE}) :
           LET body == Fixed(req, d, With(s, z))
           IN  /\ req' = body
               /\ resp' = IncorrectResponse(body, phase1)
    /\ pc' = "done"
    /\ UNCHANGED <<phase1, calls, input, verdict, trace>>

RespondCorrect ==
    /\ pc = "evaluated"
    /\ ~Skipped(req)
    /\ phase1.isCorrect
    /\ \E d \in Optional("difficulty", 0..MaxDifficulty),
          h \in Optional("hintsUsed", 0..MaxHints),
          t \in Optional("timeSpent", {0, 10, 30, 400}),
          s \in Optional("correctStreak", {0, 2, 3, 5}),
          f \in Optional("isFirstQuestionToday", {TRUE}),
          y \in Optional("dailyStreak", {4, 5}) :
           LET body == Fixed(req, d, With(With(h, t), With(s, With(f, y))))
           IN  /\ req' = body
               /\ resp' = CorrectResponse(body, phase1)
    /\ pc' = "done"
    /\ UNCHANGED <<phase1, calls, input, verdict, trace>>

Next ==
    \/ RejectMissingFields
    \/ Evaluate
    \/ FailInternal
    \/ RespondSkipped
    \/ RespondIncorrect
    \/ RespondCorrect

Spec == Init /\ [][Next]_vars

----------------------------------------------------------------------------
(* FairSpec: one request whose body holds nothing beyond questionData,
   userAnswer and skipped, handled to its end *)

\* The three responses of phases 2 to 5 for the body as it was received.
RespondAsReceived ==
    /\ pc = "evaluated"
    /\ resp' = (IF Skipped(req) THEN SkippedResponse(req, phase1)
                ELSE IF phase1.isCorrect THEN CorrectResponse(req, phase1)
                ELSE IncorrectResponse(req, phase1))
    /\ pc' = "done"
    /\ UNCHANGED <<req, phase1, calls, input, verdict, trace>>

\* The handler is one async function with no loop and no wait other than
\* for the body; the runtime runs it to its end, so a step that stays
\* possible is taken.
FairSpec ==
    /\ Init
    /\ [][RejectMissingFields \/ Evaluate \/ FailInternal \/ RespondAsReceived]_vars
    /\ WF_vars(RejectMissingFields \/ Evaluate \/ FailInternal \/ RespondAsReceived)

----------------------------------------------------------------------------
(* SpecPair: two requests to handleEvaluateAnswer, handled concurrently.   *)
(* pc, req, phase1 and resp hold one entry per request.                     *)

\* The bodies of the two requests, all fields fixed: answers to free-form and
\* step-by-step questions, skipped or not, and a body without fields.
PairBodies ==
    LET extra == [hintsUsed |-> 0, timeSpent |-> 10, correctStreak |-> 5,
                  streakFreezeAvailable |-> TRUE]
        chosen == {p \in Submissions :
                       Has(p[1], "type") /\ p[1].type \in {"free-form", "step-by-step"}}
    IN  {With([questionData |-> With(p[1], [difficulty |-> 5]), userAnswer |-> p[2]], k) :
             p \in chosen, k \in {extra, With(extra, [skipped |-> TRUE])}}
        \cup {<<>>}

InitPair ==
    /\ pc = <<"received", "received">>
    /\ req \in PairBodies \X PairBodies
    /\ phase1 = << <<>>, <<>> >>
    /\ resp = << <<>>, <<>> >>
    /\ calls = <<>>
    /\ input = <<>>
    /\ verdict = Pending
    /\ trace = NoTrace

\* Variant: the five locals are declared at module level, one copy for all
\* requests.
SetLocalsShared(all, p, locals) == [q \in DOMAIN all |-> locals]

\* let isCorrect, correctAnswer, feedback, equivalenceResult, misconceptions:
\* the locals of the invocation for request p.
SetLocals(all, p, locals) == [all EXCEPT ![p] = locals]

\* Request p is validated and phase 1 runs.
PairEvaluate(p) ==
    /\ pc[p] = "received"
    /\ IF ~Valid(req[p])
       THEN /\ resp' = [resp EXCEPT ![p] = MissingFieldsResponse]
            /\ pc' = [pc EXCEPT ![p] = "done"]
            /\ UNCHANGED phase1
       ELSE \E r \in {Phase1(req[p].questionData, req[p].userAnswer)} :
                IF r.threw
                THEN /\ resp' = [resp EXCEPT ![p] = InternalErrorResponse(r.message)]
                     /\ pc' = [pc EXCEPT ![p] = "done"]
                     /\ UNCHANGED phase1
                ELSE /\ phase1' = SetLocals(phase1, p,
                                            [f \in DOMAIN r \ {"threw", "calls"} |-> r[f]])
                     /\ pc' = [pc EXCEPT ![p] = "evaluated"]
                     /\ UNCHANGED resp
    /\ UNCHANGED <<req, calls, input, verdict, trace>>

\* Request p is answered from its locals.
PairRespond(p) ==
    /\ pc[p] = "evaluated"
    /\ resp' = [resp EXCEPT ![p] =
                   IF Skipped(req[p]) THEN SkippedResponse(req[p], phase1[p])
                   ELSE IF ~phase1[p].isCorrect THEN IncorrectResponse(req[p], phase1[p])
                   ELSE CorrectResponse(req[p], phase1[p])]
    /\ pc' = [pc EXCEPT ![p] = "done"]
    /\ UNCHANGED <<req, phase1, calls, input, verdict, trace>>

SpecPair == InitPair /\ [][\E p \in 1..2 : PairEvaluate(p) \/ PairRespond(p)]_vars

----------------------------------------------------------------------------
(* Properties of checkEquivalence, stated over SpecEq *)

Returned == verdict # Pending
UserNorm == normalizeExpression(input.user)
ExpectedNorm == normalizeExpression(input.expected)
UserValue == evaluateToNumber(input.user)
ExpectedValue == evaluateToNumber(input.expected)
BothValues == UserValue # Null /\ ExpectedValue # Null
GivenTolerance ==
    IF Has(input.options, "tolerance") THEN input.options.tolerance ELSE Rat(1, 10000)
Distance == Abs(Sub(UserValue, ExpectedValue))

\* C1: whenever the two normalized strings are equal the verdict is
\* equivalent with method 'exact', and neither side has been evaluated to a
\* number or parsed as an algebraic expression before that verdict; in
\* particular a call with twice the same string is exact.
C1_ExactTierWins ==
    Returned =>
        /\ UserNorm = ExpectedNorm =>
               /\ verdict = [isEquivalent |-> TRUE, method |-> "exact"]
               /\ trace.evaluated = <<>>
               /\ trace.code = <<>>
               /\ ~trace.algebraic
        /\ input.user = input.expected => verdict.method = "exact"

\* An exact verdict for two strings that differ as typed.
C1_Witness ==
    /\ Returned
    /\ input.user # input.expected
    /\ UserNorm = ExpectedNorm
    /\ verdict.method = "exact"

\* C2: when the normalized strings differ and both sides evaluate to a
\* number, a distance of at most the tolerance (the tolerance itself
\* included) gives an equivalent 'numeric' verdict; otherwise a distance of
\* at most 100 times the tolerance gives a 'numeric' verdict that is not
\* equivalent and is close, with no algebraic comparison made; otherwise the
\* verdict is left to the algebraic tier.
C2_NumericTier ==
    (Returned /\ UserNorm # ExpectedNorm /\ BothValues) =>
        IF LessEq(Distance, GivenTolerance)
        THEN verdict = [isEquivalent |-> TRUE, method |-> "numeric",
                        userValue |-> UserValue, expectedValue |-> ExpectedValue]
        ELSE IF LessEq(Distance, Mul(Whole(100), GivenTolerance))
        THEN /\ verdict = [isEquivalent |-> FALSE, method |-> "numeric", isClose |-> TRUE,
                           userValue |-> UserValue, expectedValue |-> ExpectedValue]
             /\ ~trace.algebraic
        ELSE verdict.method \in {"algebraic", "none"}

\* A numeric verdict on the boundary: the distance equals the tolerance.
C2_Witness ==
    /\ Returned
    /\ UserNorm # ExpectedNorm
    /\ ~HasLetter(UserNorm)
    /\ ~HasLetter(ExpectedNorm)
    /\ BothValues
    /\ Distance = GivenTolerance
    /\ verdict.method = "numeric"
    /\ verdict.isEquivalent

\* The coefficient of a key in a monomial map, 0 for a key the map lacks.
MapCoef(terms, key) == IF key \in DOMAIN terms THEN terms[key] ELSE Zero

\* Every key of either map has coefficients at most 0.0001 apart.
MapsAgree(terms1, terms2) ==
    \A key \in DOMAIN terms1 \cup DOMAIN terms2 :
        LessEq(Abs(Sub(MapCoef(terms1, key), MapCoef(terms2, key))), Rat(1, 10000))

\* C3: when neither the exact nor the numeric tier returned, the algebraic
\* comparison is made only if both normalized strings contain a letter, and
\* the verdict is equivalent with method 'algebraic' exactly when it is made
\* and every key of either monomial map has coefficients at most 0.0001
\* apart (a missing key counting as 0); in every other case the verdict is
\* 'none', not equivalent.
C3_AlgebraicTier ==
    (Returned /\ verdict.method \notin {"exact", "numeric"}) =>
        LET letters == HasLetter(UserNorm) /\ HasLetter(ExpectedNorm)
        IN  /\ trace.algebraic => letters
            /\ IF letters /\ MapsAgree(parseAlgebraic(UserNorm), parseAlgebraic(ExpectedNorm))
               THEN verdict = [isEquivalent |-> TRUE, method |-> "algebraic"]
               ELSE verdict = [isEquivalent |-> FALSE, method |-> "none"]

\* The characters the gate is meant to let through, once the rewritten
\* function name is set aside (the exponent letter of a number included).
GateChars == Range(DigitChars) \cup {"+", "-", "*", "/", "(", ")", ".", "e", "E"}
PassesGateAsMeant(code) ==
    \A c \in Range(ReplaceAll(code, <<"M", "a", "t", "h", ".", "s", "q", "r", "t">>, <<>>)) :
        c \in GateChars \/ IsSpace(c)

\* C4: every string handed to the expression evaluator consists, as a whole,
\* of the restricted characters and the rewritten function names only.
C4_SafetyGate == \A j \in DOMAIN trace.code : PassesGateAsMeant(trace.code[j])

\* A normalized answer contains a variable (x or y, the variables of the
\* inputs; the letters of sqrt and pi are not variables).
HasVariable(s) == \E j \in DOMAIN s : s[j] \in {"x", "y"}

\* C18: two answers of which one contains a variable, and whose monomial
\* maps differ, are never judged equivalent: the numeric tier does not take
\* the leading number of an expression for its value.
C18_NoPrefixValue ==
    (Returned /\ (HasVariable(UserNorm) \/ HasVariable(ExpectedNorm))
        /\ ~MapsAgree(parseAlgebraic(UserNorm), parseAlgebraic(ExpectedNorm)))
    => ~verdict.isEquivalent

\* C21: every result of checkEquivalence carries one method tag out of
\* 'exact', 'numeric', 'algebraic' and 'none'.  'exact' and 'algebraic' come
\* with isEquivalent = true; 'none' comes with isEquivalent = false and
\* without isClose; isClose = true comes only with 'numeric' and
\* isEquivalent = false; userValue and expectedValue are present exactly in
\* the 'numeric' results.
Methods == {"exact", "numeric", "algebraic", "none"}
C21_ResultShape ==
    Returned =>
        /\ verdict.method \in Methods
        /\ verdict.isEquivalent \in BOOLEAN
        /\ verdict.method \in {"exact", "algebraic"} => verdict.isEquivalent
        /\ verdict.method = "none" => ~verdict.isEquivalent /\ ~Has(verdict, "isClose")
        /\ Has(verdict, "isClose") =>
               /\ verdict.isClose = TRUE
               /\ verdict.method = "numeric"
               /\ ~verdict.isEquivalent
        /\ Has(verdict, "userValue") <=> verdict.method = "numeric"
        /\ Has(verdict, "expectedValue") <=> verdict.method = "numeric"
        /\ DOMAIN verdict \subseteq {"isEquivalent", "method", "isClose",
                                     "userValue", "expectedValue"}
C21_Witness ==
    /\ Returned
    /\ Has(verdict, "isClose")
    /\ verdict.isClose
    /\ verdict.method = "numeric"
    /\ verdict.userValue = UserValue
    /\ verdict.expectedValue = ExpectedValue

----------------------------------------------------------------------------
(* Properties of handleEvaluateAnswer, stated over Spec *)

Answered == pc = "done"
Succeeded == Answered /\ resp.status = 200
Difficulty == req.questionData.difficulty
HasDifficulty == Has(req.questionData, "difficulty")
HintsUsed == IF Has(req, "hintsUsed") THEN req.hintsUsed ELSE 0
CorrectStreak == IF Has(req, "correctStreak") THEN req.correctStreak ELSE 0

\* The base XP and the base coins of the difficulty: the table value for 1..10.
TableXp == IF HasDifficulty /\ Difficulty \in 1..10 THEN Whole(BASE_XP[Difficulty]) ELSE Whole(20)
TableCoins ==
    IF HasDifficulty /\ Difficulty \in 1..10 THEN Whole(BASE_COINS[Difficulty]) ELSE Whole(2)

\* timeSpent < 0.5 * expectedTime, with 60 seconds expected per difficulty
\* level (5 levels when the difficulty is missing or 0).
HalfExpectedTime == (IF HasDifficulty /\ Difficulty # 0 THEN Difficulty ELSE 5) * 30
UnderHalfTime == Has(req, "timeSpent") /\ req.timeSpent < HalfExpectedTime

\* C5: a request with skipped = true is answered with a success result,
\* isCorrect = false, xp total 0 and coins total 0, base = the table value of
\* the difficulty and hintPenalty = -base, whatever the other inputs, the
\* absence of the answer included.
C5_SkippedEarnsNothing ==
    (Answered /\ Skipped(req)) =>
        /\ resp.status = 200
        /\ resp.success
        /\ ~resp.isCorrect
        /\ resp.xpEarned = Zero
        /\ resp.coinsEarned = Zero
        /\ resp.xpBreakdown.total = Zero
        /\ resp.coinBreakdown.total = Zero
        /\ resp.xpBreakdown.base = TableXp
        /\ resp.xpBreakdown.hintPenalty = Neg(TableXp)

\* C6: a non-skipped request whose answer is judged incorrect earns no XP and
\* no coins, the response carries the misconceptions detected and the
\* equivalence verdict, and streakFrozen is true exactly when
\* streakFreezeAvailable is set and correctStreak >= 5.
C6_IncorrectEarnsNothing ==
    (Succeeded /\ ~Skipped(req) /\ ~phase1.isCorrect) =>
        /\ ~resp.isCorrect
        /\ resp.xpEarned = Zero
        /\ resp.coinsEarned = Zero
        /\ resp.misconceptions = phase1.misconceptions
        /\ resp.equivalenceResult = phase1.equivalenceResult
        /\ (Has(req.questionData, "type") /\ req.questionData.type \in {"free-form", "numeric"}) =>
               /\ resp.equivalenceResult.t = "object"
               /\ ~resp.equivalenceResult.fields.isEquivalent
               /\ resp.misconceptions =
                      detectMisconceptions(String(req.userAnswer), phase1.correctAnswer.chars)
        /\ resp.streakFrozen <=>
               /\ Has(req, "streakFreezeAvailable")
               /\ req.streakFreezeAvailable
               /\ CorrectStreak >= 5

\* An incorrect answer with a misconception detected and the streak frozen.
C6_Witness ==
    /\ Succeeded
    /\ ~Skipped(req)
    /\ ~phase1.isCorrect
    /\ resp.misconceptions # <<>>
    /\ resp.streakFrozen
    /\ CorrectStreak >= 5

\* round(x4) of the XP chain, with or without the time bonus.
XpChainTotal(timeBonusApplies) ==
    LET m == <<Whole(1), Rat(85, 100), Rat(65, 100), Rat(40, 100)>>
        x1 == Mul(TableXp, m[(IF HintsUsed < 3 THEN HintsUsed ELSE 3) + 1])
        x2 == IF timeBonusApplies THEN Add(x1, Mul(Rat(2, 10), TableXp)) ELSE x1
        x3 == IF CorrectStreak >= 5 THEN Mul(x2, Rat(3, 2))
              ELSE IF CorrectStreak >= 3 THEN Mul(x2, Rat(5, 4))
              ELSE x2
        x4 == IF resp.equivalenceResult.t = "object"
                 /\ resp.equivalenceResult.fields.method = "algebraic"
              THEN Add(x3, Mul(Rat(1, 10), TableXp)) ELSE x3
    IN  MathRound(x4)

\* C7: for a correct, non-skipped answer the xp total is round(x4), where
\* x1 = base * m[min(hintsUsed, 3)], x2 = x1 + 0.2 * base when the time bonus
\* applies, x3 = x2 * 1.5 for a streak of 5, x2 * 1.25 for a streak of 3,
\* x4 = x3 + 0.1 * base for an algebraic verdict.  The time bonus applies to
\* a positive timeSpent under half the expected time and not to a missing or
\* a longer one; a timeSpent of 0 is not decided here.
C7_XpChain ==
    (Succeeded /\ resp.isCorrect) =>
        /\ resp.xpBreakdown.total = resp.xpEarned
        /\ IF Has(req, "timeSpent") /\ req.timeSpent = 0
           THEN resp.xpEarned \in {XpChainTotal(TRUE), XpChainTotal(FALSE)}
           ELSE resp.xpEarned = XpChainTotal(UnderHalfTime)

\* Difficulty 5, no hints, 10 seconds, a streak of 5, an algebraic verdict: 95.
C7_Witness ==
    /\ Succeeded
    /\ resp.isCorrect
    /\ HasDifficulty /\ Difficulty = 5
    /\ Has(req, "hintsUsed") /\ req.hintsUsed = 0
    /\ Has(req, "timeSpent") /\ req.timeSpent = 10
    /\ CorrectStreak = 5
    /\ resp.equivalenceResult.t = "object"
    /\ resp.equivalenceResult.fields.method = "algebraic"
    /\ resp.xpEarned = Whole(95)

\* A component of the XP breakdown as reported, 0 when it is not listed.
XpPart(f) == IF Has(resp.xpBreakdown, f) THEN resp.xpBreakdown[f] ELSE Zero

\* C8: in every success response xpBreakdown.total is the sum of the
\* components the breakdown reports (base, hintPenalty, timePenalty,
\* timeBonus, streakBonus, equivalenceBonus) and coinBreakdown.total is
\* round(base * multiplier).
C8_TotalsAreSums ==
    Succeeded =>
        /\ resp.xpBreakdown.total =
               Add(Add(Add(XpPart("base"), XpPart("hintPenalty")),
                       Add(XpPart("timePenalty"), XpPart("timeBonus"))),
                   Add(XpPart("streakBonus"), XpPart("equivalenceBonus")))
        /\ resp.coinBreakdown.total =
               MathRound(Mul(resp.coinBreakdown.base, resp.coinBreakdown.multiplier))

\* The factors of the coin multiplier that apply, in order.
FirstQuestion == Has(req, "isFirstQuestionToday") /\ req.isFirstQuestionToday
DailyFive == Has(req, "dailyStreak") /\ req.dailyStreak >= 5
Perfect == HintsUsed = 0 /\ UnderHalfTime

\* C9: for a correct, non-skipped answer the coin multiplier is the product
\* of 2.0 if isFirstQuestionToday, 1.5 if dailyStreak >= 5 and 1.25 if the
\* answer was perfect (no hints and timeSpent < 0.5 * expectedTime); the
\* bonuses list names exactly the applied factors, in that order; the coins
\* total is round(baseCoins * multiplier).
C9_CoinChain ==
    (Succeeded /\ resp.isCorrect) =>
        /\ resp.coinBreakdown.multiplier =
               Mul(Mul(IF FirstQuestion THEN Whole(2) ELSE Whole(1),
                       IF DailyFive THEN Rat(3, 2) ELSE Whole(1)),
                   IF Perfect THEN Rat(5, 4) ELSE Whole(1))
        /\ [j \in DOMAIN resp.coinBreakdown.bonuses |-> resp.coinBreakdown.bonuses[j].type] =
               (IF FirstQuestion THEN <<"firstQuestion">> ELSE <<>>)
               \o (IF DailyFive THEN <<"streakBonus">> ELSE <<>>)
               \o (IF Perfect THEN <<"perfect">> ELSE <<>>)
        /\ resp.coinBreakdown.base = TableCoins
        /\ resp.coinBreakdown.total = MathRound(Mul(TableCoins, resp.coinBreakdown.multiplier))
        /\ resp.coinsEarned = resp.coinBreakdown.total

\* The steps of the question and the StepResults of phase 1.
Steps == IF Has(req.questionData, "steps") THEN req.questionData.steps ELSE <<>>
StepResults == phase1.equivalenceResult.items
StepByStepEvaluated ==
    /\ phase1 # <<>>
    /\ ~Skipped(req)
    /\ Has(req.questionData, "type")
    /\ req.questionData.type = "step-by-step"

\* C10: for a non-skipped step-by-step question checkEquivalence is invoked
\* once per step, on that step's answer and expected answer, the result holds
\* one StepResult per step in step order, and isCorrect is true exactly when
\* every StepResult has correct = true.
C10_StepByStep ==
    StepByStepEvaluated =>
        /\ Len(calls) = Len(Steps)
        /\ phase1.equivalenceResult.t = "array"
        /\ Len(StepResults) = Len(Steps)
        /\ \A j \in DOMAIN Steps :
               /\ calls[j].expected = Steps[j].expectedAnswer
               /\ calls[j].user = StepResults[j].actual
               /\ StepResults[j].stepNumber = Steps[j].stepNumber
               /\ StepResults[j].expected = Steps[j].expectedAnswer
               /\ pc = "evaluated" =>
                      StepResults[j].correct =
                          checkEquivalence(calls[j].user, calls[j].expected,
                                           calls[j].options).isEquivalent
        /\ phase1.isCorrect <=> \A j \in DOMAIN StepResults : StepResults[j].correct
        /\ Succeeded => (resp.isCorrect <=> phase1.isCorrect)

\* A 3-step question with exactly one wrong step, answered as incorrect.
C10_Witness ==
    /\ StepByStepEvaluated
    /\ Succeeded
    /\ Len(StepResults) = 3
    /\ Cardinality({j \in DOMAIN StepResults : ~StepResults[j].correct}) = 1
    /\ ~resp.isCorrect

\* The question of the request, and whether it lacks what its type needs: a
\* free-form or numeric question without an expected answer, a step-by-step
\* question without a steps array.
Question == req.questionData
QuestionType == IF Has(Question, "type") THEN Question.type ELSE "undefined"
Malformed ==
    \/ /\ QuestionType \in {"free-form", "numeric"}
       /\ ~Has(Question, "correctAnswer")
       /\ ~Has(Question, "expectedAnswer")
    \/ /\ QuestionType = "step-by-step"
       /\ ~Has(Question, "steps")
ClientError == Answered /\ resp.status \in 400..499 /\ ~resp.success

\* C11: a request whose question data is malformed is answered with a client
\* (4xx) error: it is not scored as correct or incorrect and earns nothing.
C11_MalformedRejected ==
    (Answered /\ Has(req, "questionData") /\ Malformed) => ClientError

\* C12: a request whose question has no type, or a type that is not one of
\* the four declared, is answered with a 4xx input-validation error and is
\* not scored.
C12_UntypedRejected ==
    (Answered /\ Has(req, "questionData")
        /\ QuestionType \notin {"multiple-choice", "step-by-step", "free-form", "numeric"})
    => ClientError

\* The ids of the options flagged isCorrect.
FlaggedIds ==
    IF Has(Question, "options")
    THEN {Question.options[j].id :
              j \in {k \in DOMAIN Question.options :
                         Has(Question.options[k], "isCorrect") /\ Question.options[k].isCorrect}}
    ELSE {}
MultipleChoiceEvaluated == phase1 # <<>> /\ QuestionType = "multiple-choice"

\* C13: for a multiple-choice question isCorrect is true exactly when
\* userAnswer is the id of the option flagged isCorrect; checkEquivalence is
\* not called, the equivalence result stays null and the misconception list
\* stays empty.
C13_MultipleChoice ==
    MultipleChoiceEvaluated =>
        /\ phase1.isCorrect <=>
               (req.userAnswer.t = "string" /\ req.userAnswer.chars \in FlaggedIds)
        /\ calls = <<>>
        /\ phase1.equivalenceResult = JsNull
        /\ phase1.misconceptions = <<>>
        /\ Succeeded =>
               /\ resp.equivalenceResult = JsNull
               /\ resp.misconceptions = <<>>

\* C16: misconceptions are detected only for an answer judged not
\* equivalent: a response with isCorrect = true carries an empty misconception
\* list, an evaluation that judged the answer correct has detected none, and
\* a StepResult with correct = true has an empty misconceptions list.
C16_OnlyForWrongAnswers ==
    /\ (Succeeded /\ resp.isCorrect) => resp.misconceptions = <<>>
    /\ (phase1 # <<>> /\ phase1.isCorrect) => phase1.misconceptions = <<>>
    /\ (phase1 # <<>> /\ QuestionType = "step-by-step") =>
           \A j \in DOMAIN StepResults :
               StepResults[j].correct => StepResults[j].misconceptions = <<>>

\* A correct step-by-step response, to a body of questionData and userAnswer
\* only, with a step whose answer, although judged equivalent, matches a
\* catalog entry.
C16_Witness ==
    /\ Succeeded
    /\ resp.isCorrect
    /\ QuestionType = "step-by-step"
    /\ DOMAIN req = {"questionData", "userAnswer"}
    /\ \E j \in DOMAIN StepResults :
           /\ StepResults[j].correct
           /\ detectMisconceptions(StepResults[j].actual, StepResults[j].expected) # <<>>

\* The tolerance a question or a step supplies, 0.01 when it supplies none.
SuppliedTolerance(r) == IF Has(r, "tolerance") THEN r.tolerance ELSE Rat(1, 100)

\* C17: checkEquivalence is called with the tolerance the question (for a
\* free-form or numeric question) or the step (for a step-by-step question)
\* supplies, whatever its value, and with 0.01 only when none is supplied.
C17_SuppliedTolerance ==
    phase1 # <<>> =>
        /\ QuestionType \in {"free-form", "numeric"} =>
               /\ Len(calls) = 1
               /\ calls[1].options = [tolerance |-> SuppliedTolerance(Question)]
        /\ QuestionType = "step-by-step" =>
               \A j \in DOMAIN calls :
                   calls[j].options = [tolerance |-> SuppliedTolerance(Steps[j])]

\* At least one submitted answer was compared with an existing expected
\* answer, or flagged option, and every comparison matched.
CheckedAndRight ==
    CASE QuestionType = "multiple-choice" ->
             req.userAnswer.t = "string" /\ req.userAnswer.chars \in FlaggedIds
      [] QuestionType = "step-by-step" ->
             /\ Steps # <<>>
             /\ \A j \in DOMAIN StepResults : StepResults[j].correct
      [] QuestionType \in {"free-form", "numeric"} ->
             /\ ~Malformed
             /\ phase1.equivalenceResult.fields.isEquivalent
      [] OTHER -> FALSE

\* C19: a response is correct, or grants XP or coins, only if the request is
\* not skipped, the question has one of the four types, and an answer was
\* checked and found right.
C19_RewardOnlyIfChecked ==
    (Succeeded /\ (resp.isCorrect \/ Less(Zero, resp.xpEarned) \/ Less(Zero, resp.coinsEarned)))
    => (~Skipped(req) /\ CheckedAndRight)

\* C20: for a correct, non-skipped answer with a timeSpent and a difficulty
\* supplied, the time bonus is 20% of the base XP if
\* timeSpent < 0.5 * difficulty * 60, and 0 otherwise.
C20_TimeBonus ==
    (Succeeded /\ resp.isCorrect /\ Has(req, "timeSpent") /\ HasDifficulty) =>
        resp.xpBreakdown.timeBonus =
            IF req.timeSpent < Difficulty * 30 THEN Mul(Rat(1, 5), TableXp) ELSE Zero

\* C24: the misconceptions of an incorrect, non-skipped step-by-step answer
\* are the misconception lists of its incorrect steps, concatenated in step
\* order with the repeats across steps kept; in the feedback each
\* misconception is listed once.
WrongSteps == SelectSeq(StepResults, LAMBDA r : ~r.correct)
Bullets == Len(SelectSeq(resp.feedback, LAMBDA chunk : chunk = "U+2022"))
C24_RepeatsKept ==
    (Succeeded /\ StepByStepEvaluated /\ ~resp.isCorrect) =>
        /\ resp.misconceptions =
               Flatten([j \in DOMAIN WrongSteps |-> WrongSteps[j].misconceptions])
        /\ Bullets = Cardinality({resp.misconceptions[j].id : j \in DOMAIN resp.misconceptions})
C24_Witness ==
    /\ Succeeded
    /\ StepByStepEvaluated
    /\ ~resp.isCorrect
    /\ \E j, k \in DOMAIN WrongSteps :
           /\ j < k
           /\ WrongSteps[j].misconceptions # <<>>
           /\ WrongSteps[k].misconceptions # <<>>
           /\ WrongSteps[j].misconceptions[1].id = WrongSteps[k].misconceptions[1].id
    /\ Bullets < Len(resp.misconceptions)

\* C30: for a correct, non-skipped answer with hintsUsed = 0, 1, 2, ...
\* the XP earned is above 0 and at most round(1.9 * baseXp), and the coins
\* earned are at least baseCoins; with one hint more and everything else
\* the same the XP earned is not higher, and it is the same from the third
\* hint on.
XpWithHints(h) == XpOf(With(req, [hintsUsed |-> h]), resp.equivalenceResult).total
C30_XpBounds ==
    (Succeeded /\ resp.isCorrect) =>
        /\ Less(Zero, resp.xpEarned)
        /\ LessEq(resp.xpEarned, MathRound(Mul(Rat(19, 10), TableXp)))
        /\ LessEq(TableCoins, resp.coinsEarned)
        /\ resp.xpEarned = XpWithHints(HintsUsed)
        /\ LessEq(XpWithHints(HintsUsed + 1), resp.xpEarned)
        /\ HintsUsed >= 3 => /\ XpWithHints(HintsUsed + 1) = resp.xpEarned
                             /\ XpWithHints(3) = resp.xpEarned
C30_Witness ==
    /\ Succeeded
    /\ resp.isCorrect
    /\ HintsUsed = 2
    /\ Less(XpWithHints(3), resp.xpEarned)
    /\ resp.xpEarned # MathRound(Mul(Rat(19, 10), TableXp))

\* C23: every invocation ends with one response, decided in a fixed order:
\* 400 when questionData is missing or userAnswer is undefined, before
\* anything is evaluated; 500 when the evaluation raises an exception;
\* otherwise one success response, the skipped one for a skipped request
\* whatever the evaluation found, else the incorrect or the correct one
\* according to the evaluation.  An error response carries neither XP nor
\* coins.
MissingFields == ~Has(req, "questionData") \/ ~Has(req, "userAnswer")
Raises ==
    /\ QuestionType = "step-by-step"
    /\ Steps # <<>>
    /\ req.userAnswer.t = "null"
SkipAsked == Has(req, "skipped") /\ req.skipped = TRUE
Kind ==
    IF resp.status # 200 THEN "error"
    ELSE IF resp.isCorrect THEN "correct"
    ELSE IF Has(resp, "streakFrozen") THEN "incorrect"
    ELSE "skipped"
ResponseInOrder ==
    Answered =>
        /\ resp.status =
               (IF MissingFields THEN 400 ELSE IF Raises THEN 500 ELSE 200)
        /\ MissingFields => phase1 = <<>> /\ calls = <<>>
        /\ resp.status # 200 =>
               /\ ~resp.success
               /\ DOMAIN resp \cap {"xpEarned", "coinsEarned", "xpBreakdown",
                                    "coinBreakdown"} = {}
        /\ resp.status = 200 =>
               Kind = (IF SkipAsked THEN "skipped"
                       ELSE IF phase1.isCorrect THEN "correct"
                       ELSE "incorrect")
C23_OneResponseInOrder ==
    /\ <>Answered
    /\ [](~Answered => resp = <<>>)
    /\ [][~Answered]_vars
    /\ []ResponseInOrder
C23_Witness ==
    /\ Answered
    /\ SkipAsked
    /\ phase1 # <<>>
    /\ phase1.isCorrect
    /\ Kind = "skipped"

----------------------------------------------------------------------------
(* Properties of concurrent requests, stated over SpecPair *)

\* The response to a body that is handled alone.
AloneResponse(body) ==
    IF ~Valid(body) THEN MissingFieldsResponse
    ELSE Given(Phase1(body.questionData, body.userAnswer), LAMBDA r :
             IF r.threw THEN InternalErrorResponse(r.message)
             ELSE IF Skipped(body) THEN SkippedResponse(body, r)
             ELSE IF ~r.isCorrect THEN IncorrectResponse(body, r)
             ELSE CorrectResponse(body, r))

\* C14: however the handling of two requests is interleaved, each request gets
\* the response (verdict, misconceptions, breakdowns) it gets when handled
\* alone, so two requests with the same body get the same response.
C14_Independent ==
    /\ \A p \in 1..2 : pc[p] = "done" => resp[p] = AloneResponse(req[p])
    /\ (pc = <<"done", "done">> /\ req[1] = req[2]) => resp[1] = resp[2]

\* Two different evaluations interleaved: the second request was evaluated
\* while the first was waiting to be answered, and both are answered
\* differently.
C14_Witness ==
    /\ pc = <<"done", "done">>
    /\ phase1[1] # <<>>
    /\ phase1[2] # <<>>
    /\ phase1[1].isCorrect
    /\ ~phase1[2].isCorrect
    /\ resp[1].status = 200
    /\ resp[1].isCorrect
    /\ resp[2].status = 200
    /\ ~resp[2].isCorrect
    /\ resp[2].misconceptions # <<>>

----------------------------------------------------------------------------
(* Properties of detectMisconceptions, stated over SpecMis *)

Detected == verdict.detected
DetectedIds == {Detected[j].id : j \in DOMAIN Detected}
CatalogIndex(id) == CHOOSE j \in DOMAIN MISCONCEPTIONS : MISCONCEPTIONS[j].id = id
\* The predicate of each catalog entry on the values u and e of a pair, Null
\* for an answer without a value.
RatioNear(u, e, factors, eps) ==
    e # Zero /\ \E f \in factors : Less(Abs(Sub(Div(u, e), f)), eps)
PredicateHolds(id, u, e) ==
    /\ u # Null
    /\ e # Null
    /\ CASE id = "sign_error" -> Less(Abs(Sub(u, Neg(e))), Rat(1, 10000))
         [] id = "factor_error" ->
              RatioNear(u, e, {Whole(2), Rat(1, 2), Whole(10), Rat(1, 10), MathPI,
                               Div(Whole(1), MathPI)}, Rat(1, 1000))
         [] id = "fraction_flip" ->
              u # Zero /\ Less(Abs(Sub(Mul(u, e), Whole(1))), Rat(1, 10000))
         [] id = "order_of_operations" -> FALSE
         [] id = "power_error" ->
              Less(Zero, e)
              /\ \/ Less(Abs(Sub(u, Sqrt(e))), Rat(1, 1000))
                 \/ Less(Abs(Sub(u, Mul(e, e))), Rat(1, 1000))
         [] id = "decimal_error" ->
              RatioNear(u, e, {Whole(10), Whole(100), Whole(1000),
                               Rat(1, 10), Rat(1, 100), Rat(1, 1000)}, Rat(1, 10000))
         [] id = "unit_conversion" ->
              RatioNear(u, e, {Whole(60), Rat(1, 60), Whole(3600), Rat(1, 3600),
                               Whole(1000), Rat(1, 1000), Whole(100), Rat(1, 100)},
                        Rat(1, 10000))
MatchingIds ==
    Given(UserValue, LAMBDA u :
    Given(ExpectedValue, LAMBDA e :
        {id \in {MISCONCEPTIONS[j].id : j \in DOMAIN MISCONCEPTIONS} :
             PredicateHolds(id, u, e)}))

\* C15: detectMisconceptions returns, in catalog order and without
\* duplicates, exactly the catalog entries whose predicate holds for the
\* pair: sign_error for ('-4', '4'), factor_error and power_error for
\* ('2', '4'), and order_of_operations for no pair.
C15_ExactlyTheMatches ==
    Returned =>
        /\ \A j \in DOMAIN Detected : Detected[j] \in Range(MISCONCEPTIONS)
        /\ \A j, k \in DOMAIN Detected :
               j < k => CatalogIndex(Detected[j].id) < CatalogIndex(Detected[k].id)
        /\ DetectedIds = MatchingIds
        /\ (input.user = <<"-", "4">> /\ input.expected = <<"4">>) =>
               "sign_error" \in DetectedIds
        /\ (input.user = <<"2">> /\ input.expected = <<"4">>) =>
               {"factor_error", "power_error"} \subseteq DetectedIds
        /\ "order_of_operations" \notin DetectedIds

\* The call for ('2', '4'): two entries, in catalog order.
C15_Witness ==
    /\ Returned
    /\ input.user = <<"2">>
    /\ input.expected = <<"4">>
    /\ [j \in DOMAIN Detected |-> Detected[j].id] = <<"factor_error", "power_error">>

----------------------------------------------------------------------------
(* Properties of the helper functions, stated over SpecFn *)

Applied == verdict.method = "applied"
Compared == verdict.method = "compared"

\* C22: evaluateToNumber returns a number or null, and null whenever the
\* text has no numeric interpretation, as a text with a variable has none;
\* and a call of checkEquivalence on such a text returns a result.
C22_NullWithoutNumber ==
    /\ Applied =>
           /\ verdict.number = Null \/ Len(verdict.number) = 2
           /\ HasVariable(verdict.normalized) => verdict.number = Null
    /\ Compared => verdict.straight.method \in Methods

\* C26: parseAlgebraic accumulates the coefficients of the signed terms per
\* key: 'x + x' yields {x^1: 2}, a bare number adds to 'const', a term
\* without a coefficient or with only '+' counts 1, a term with only '-'
\* counts -1, and the empty expression yields the empty map.
XKey == <<"x", "^", "1">>
Terms(pairs) == [k \in {q[1] : q \in pairs} |-> (CHOOSE q \in pairs : q[1] = k)[2]]
ExpectedTerms ==
    [user : {<<"x", " ", "+", " ", "x">>}, terms : {Terms({<<XKey, Whole(2)>>})}]
    \cup [user : {<<"x">>, <<"+", "x">>, <<" ", "x">>}, terms : {Terms({<<XKey, Whole(1)>>})}]
    \cup [user : {<<"-", "x">>}, terms : {Terms({<<XKey, Whole(-1)>>})}]
    \cup [user : {<<"-", "x", "-", "x">>}, terms : {Terms({<<XKey, Whole(-2)>>})}]
    \cup [user : {<<"2">>, <<"1", "+", "1">>}, terms : {Terms({<<ConstKey, Whole(2)>>})}]
    \cup [user : {<<"x", "+", "1">>, <<" ", "1", " ", "+", "x">>, <<"1", "+", "x">>},
          terms : {Terms({<<XKey, Whole(1)>>, <<ConstKey, Whole(1)>>})}]
    \cup [user : {<<"-", "1">>, <<"-">>}, terms : {Terms({<<ConstKey, Whole(-1)>>})}]
    \cup [user : {<<>>, <<" ">>, <<"+">>, Undefined}, terms : {Terms({})}]
C26_TermsAccumulate ==
    Applied =>
        \A e \in ExpectedTerms : input.user = e.user => verdict.terms = e.terms
C26_Witness ==
    /\ Applied
    /\ input.user = <<"x", " ", "+", " ", "x">>
    /\ verdict.terms = Terms({<<XKey, Whole(2)>>})

\* C27: normalizeExpression yields a string for every argument, undefined
\* and the empty string included.  The string holds no white space, no
\* uppercase letter, no mapped glyph and no digit directly followed by a
\* letter, and of the leading '+' signs of the argument exactly one is
\* removed.
Glyphs == {"U+00D7", "U+00F7", "U+2212", "U+00B7", "U+00B2", "U+00B3", "U+221A", "U+03C0"}
RECURSIVE LeadingPluses(_)
LeadingPluses(s) ==
    IF s # <<>> /\ Head(s) = "+" THEN 1 + LeadingPluses(Tail(s)) ELSE 0
Spaceless(s) == IF s = Undefined THEN <<>> ELSE SelectSeq(s, LAMBDA c : ~IsSpace(c))
C28_Idempotent ==
    /\ Applied => verdict.renormalized = verdict.normalized
    /\ (Compared /\ UserNorm = ExpectedNorm) => verdict.straight.method = "exact"

\* C29: checkEquivalence is symmetric: with the two answers exchanged and
\* the same tolerance it returns the same isEquivalent, method and isClose.
Judgement(r) ==
    [isEquivalent |-> r.isEquivalent, method |-> r.method,
     isClose |-> IF Has(r, "isClose") THEN <<r.isClose>> ELSE <<>>]
C29_Symmetric ==
    Compared => Judgement(verdict.straight) = Judgement(verdict.swapped)
C29_Witness ==
    /\ Compared
    /\ UserNorm # ExpectedNorm
    /\ Has(verdict.straight, "isClose")
    /\ Has(verdict.swapped, "isClose")
    /\ Less(UserValue, ExpectedValue)

=============================================================================
